---------------------------- MODULE Spec2Model ----------------------------
(***************************************************************************)
(* ECS runtime of WeGameJS: Entity (engine/core/Entity.js), System and     *)
(* Component (engine/core/System.js, Component.js) and World               *)
(* (engine/core/World.js).                                                 *)
(*                                                                         *)
(* Objects are drawn from fixed universes: entity objects, system objects, *)
(* component instances and listener functions.  Two entity objects share   *)
(* an id and two system objects share a class name, so that the duplicate  *)
(* paths of addEntity and addSystem are exercised.  Every action is one    *)
(* public method call, executed to completion (JavaScript is single        *)
(* threaded); `calls` records the hooks, events and listeners that call    *)
(* ran, in order, `ret` its return value and `raised` whether it threw.    *)
(*                                                                         *)
(* Abstractions: there is one world, so System.world is not a variable;    *)
(* requiredComponents is a set of class names (matches only tests          *)
(* membership); deltaTime is kept in milliseconds; the hooks are those of  *)
(* the base classes or of subclasses that only log, so a hook call is      *)
(* recorded and changes nothing.  Each specification draws the arguments   *)
(* of the calls from its own input sets.                                   *)
(***************************************************************************)
EXTENDS Integers, Sequences, FiniteSets, TLC

\* ------------------------------------------------------------------ bounds
NumEntities  == 3   \* entity objects; the last one has the id of the first
NumSystems   == 4   \* system objects; the last one has the name of the first
NumInstances == 2   \* instances of each component class
MaxCounter   == 2   \* addEntity is called while entityCounter < MaxCounter
NumListeners == 2   \* listener functions
NumBodies    == 2   \* entities with a Transform and a Physics component
MaxForces    == 2   \* forces, and impulses, queued on one body
MaxFrames    == 2   \* physics updates in a run
MaxListeners == 2   \* listeners subscribed to one event at a time
MaxTime      == 2   \* timestamps (ms) are 0..MaxTime

None == 0

EntityObjs   == 1..NumEntities
ListenerObjs == 1..NumListeners
\* A listener function whose body throws.
FaultyListeners == {NumListeners + 1}
Throws(l) == l \in FaultyListeners
\* A listener that returns false.
VetoListeners == {NumListeners + 2}
ReturnsFalse(l) == l \in VetoListeners
Times        == 1..MaxTime

\* Component classes (type identifier = constructor.name) and instances.
\* An instance is <<class name, k>>; NoComp is the absent component (null).
Types == {"A", "B"}
Comps == Types \X (1..NumInstances)
TypeOf(c) == c[1]
NoComp == <<>>
Tags == {"t"}
\* null or undefined passed where a component class is expected.
NullType == "null"

\* The events InputSystem emits from its handlers.
InputEvents == {"keydown", "keyup", "mousemove", "mousedown", "mouseup", "wheel",
                "touchstart", "touchmove", "touchend"}

EventNames == {"entityAdded", "entityRemoved", "systemAdded", "systemRemoved",
               "worldStarted", "worldStopped", "worldUpdated", "worldCleared",
               "worldDestroyed"}

\* Entity ids: Entity.constructor keeps the id it is given.
EntityId(e) == IF e = NumEntities THEN 1 ELSE e

VARIABLES
  entComponents,   \* Entity.components : type name -> component instance
  entEnabled,      \* Entity.enabled
  compEntity,      \* Component.entity back-reference
  entTags,         \* Entity.tags
  sysEnabled,      \* System.enabled
  sysPriority,     \* System.priority
  sysRequired,     \* System.requiredComponents (as a set of type names)
  entities,        \* World.entities, in Map insertion order
  systems,         \* World.systems, in Map insertion order
  entityCounter,   \* World.entityCounter
  isRunning,       \* World.isRunning
  lastUpdateTime,  \* World.lastUpdateTime
  eventListeners,  \* World.eventListeners : event name -> list of listeners
  inputListeners,  \* InputSystem.eventListeners : event name -> list of listeners
  body,            \* per physics entity: its Physics and Transform fields
  physGravity,     \* PhysicsSystem.gravityX, gravityY
  physBounds,      \* PhysicsSystem.worldBounds
  collisionPairs,  \* PhysicsSystem.collisionPairs, as pairs of bodies
  frames,          \* number of physics updates and collision calls made
  emitterEvents,   \* EventEmitter._events of one emitter, for one event name
  lastOp,          \* the call that produced this state
  ret,             \* its return value
  raised,          \* whether it threw
  calls,           \* hooks, emits, listener calls and warnings it made, in order
  hooked           \* history, kept where it is started empty: the
                   \* <<system, entity>> whose onEntityAdded was called and
                   \* not yet followed by their onEntityRemoved

entityVars == <<entComponents, entEnabled, compEntity>>
systemVars == <<sysEnabled, sysPriority, sysRequired>>
worldVars  == <<entities, systems, entityCounter, isRunning, lastUpdateTime,
                eventListeners>>
tagVars    == <<entTags>>
inputVars  == <<inputListeners>>
physVars   == <<body, physGravity, physBounds, collisionPairs, frames>>
emitterVars == <<emitterEvents>>
obsVars    == <<lastOp, ret, raised, calls, hooked>>
vars == <<entityVars, tagVars, systemVars, worldVars, inputVars, physVars,
          emitterVars, obsVars>>

\* ---------------------------------------------------------------- helpers
Op(name, a, x) == [op |-> name, a |-> a, x |-> x]
Call(k, ev, a, b) == [k |-> k, ev |-> ev, a |-> a, b |-> b]
\* console.warn
Warn == Call("warn", "", 0, 0)

Range(s) == {s[i] : i \in 1..Len(s)}
Without(s, x) == SelectSeq(s, LAMBDA y : y # x)

\* Index of the first element of s equal to x, or 0 (Array.indexOf = -1).
IndexOf(s, x) ==
  IF x \in Range(s) THEN CHOOSE i \in 1..Len(s) : s[i] = x /\ \A j \in 1..(i-1) : s[j] # x
  ELSE 0

\* System.getName : the class name; the last system object is a second
\* instance of the first one's class.
\* BaseSystem is an instance of a class that does not override update.
BaseSystem == NumSystems + 1
SystemObjs == 1..(NumSystems + 1)
getName(s) == IF s = NumSystems THEN 1 ELSE s
OverridesUpdate(s) == s # BaseSystem

\* The component classes a system class passes to setRequiredComponents in its
\* constructor (as PhysicsSystem, AnimationSystem and InputSystem do).
\* The System constructor leaves the list empty.
ClassRequired(n) ==
  IF n \in {1, BaseSystem} THEN {} ELSE IF n = 2 THEN {"A", "B"} ELSE {"A"}

\* Map.get on World.entities / World.systems: the registered object with the
\* key, or None.
EntityWithId(id) ==
  IF \E i \in 1..Len(entities) : EntityId(entities[i]) = id
  THEN entities[CHOOSE i \in 1..Len(entities) : EntityId(entities[i]) = id]
  ELSE None

SystemWithName(n) ==
  IF \E i \in 1..Len(systems) : getName(systems[i]) = n
  THEN systems[CHOOSE i \in 1..Len(systems) : getName(systems[i]) = n]
  ELSE None

\* ---------------------------------------------------------------- numbers
\* JavaScript numbers are modelled as exact rationals <<n, d>> in lowest terms
\* with d > 0 (floating-point rounding is left out); <<0, 0>> is NaN, the
\* value of 0 / 0.
NaN == <<0, 0>>
Abs(i) == IF i < 0 THEN -i ELSE i
Sign(i) == IF i < 0 THEN -1 ELSE IF i > 0 THEN 1 ELSE 0

RECURSIVE GCD(_, _)
GCD(a, b) == IF b = 0 THEN a ELSE GCD(b, a % b)

Norm(n, d) ==
  IF d = 0 THEN NaN
  ELSE LET g == GCD(Abs(n), Abs(d)) IN <<Sign(d) * (n \div g), Abs(d) \div g>>

Num(i) == <<i, 1>>
Frac(n, d) == Norm(n, d)
IsNaN(a) == a[2] = 0

RAdd(a, b) ==
  IF IsNaN(a) \/ IsNaN(b) THEN NaN
  ELSE LET g == GCD(a[2], b[2])
           l == (a[2] \div g) * b[2]
       IN  Norm(a[1] * (l \div a[2]) + b[1] * (l \div b[2]), l)

RNeg(a) == <<-a[1], a[2]>>
RSub(a, b) == RAdd(a, RNeg(b))
RAbs(a) == <<Abs(a[1]), a[2]>>

RMul(a, b) ==
  IF IsNaN(a) \/ IsNaN(b) THEN NaN
  ELSE LET g1 == GCD(Abs(a[1]), b[2])
           g2 == GCD(Abs(b[1]), a[2])
       IN  <<(a[1] \div g1) * (b[1] \div g2), (a[2] \div g2) * (b[2] \div g1)>>

\* a / b; the only division by zero the model meets is 0 / 0.
RDiv(a, b) ==
  IF IsNaN(a) \/ IsNaN(b) \/ b[1] = 0 THEN NaN
  ELSE RMul(a, <<Sign(b[1]) * b[2], Abs(b[1])>>)

\* a < b; every comparison with NaN is false.
RLess(a, b) ==
  /\ ~IsNaN(a) /\ ~IsNaN(b)
  /\ LET g == GCD(a[2], b[2]) IN a[1] * (b[2] \div g) < b[1] * (a[2] \div g)

\* The integer square root by bisection, for lo * lo <= k < hi * hi.
RECURSIVE Bisect(_, _, _)
Bisect(k, lo, hi) ==
  IF hi - lo <= 1 THEN lo
  ELSE LET mid == (lo + hi) \div 2 IN
       IF mid * mid <= k THEN Bisect(k, mid, hi) ELSE Bisect(k, lo, mid)

\* Math.sqrt of a natural number that is a perfect square (the inputs are
\* drawn so that no other root is taken).
MaxRoot == 46340
ISqrt(k) == CHOOSE r \in {Bisect(k, 0, MaxRoot)} : r * r = k

\* Math.sqrt(a * a + b * b)
Hypot(a, b) ==
  IF IsNaN(a) \/ IsNaN(b) THEN NaN
  ELSE IF a[1] = 0 THEN RAbs(b)
  ELSE IF b[1] = 0 THEN RAbs(a)
  ELSE LET s == RAdd(RMul(a, a), RMul(b, b)) IN <<ISqrt(s[1]), ISqrt(s[2])>>

\* ----------------------------------------------------------------- Entity
hasComponent(comps, e, T) == comps[e][T] # NoComp

\* Entity.destroy: clears the back-reference of every owned component, then
\* the component map.
DestroyedBackrefs(back, comps, e) ==
  [c \in Comps |-> IF comps[e][TypeOf(c)] = c THEN None ELSE back[c]]
NoComponents == [T \in Types |-> NoComp]

\* ----------------------------------------------------------------- System
\* Fault: matches without the isEnabled test.
matchesIgnoringEnabled(s, e) ==
  \A T \in sysRequired[s] : hasComponent(entComponents, e, T)

\* System.matches(entity)
matches(s, e) ==
  /\ entEnabled[e]
  /\ \A T \in sysRequired[s] : hasComponent(entComponents, e, T)

\* System.getMatchingEntities: world.getEntities().filter(matches).
getMatchingEntities(s) == SelectSeq(entities, LAMBDA e : matches(s, e))

\* ------------------------------------------------------------------ World
\* A forEach over the listeners without a try: the first exception ends it.
RECURSIVE ListenerCallsUncaught(_, _, _)
ListenerCallsUncaught(list, ev, data) ==
  IF list = <<>> THEN <<>>
  ELSE IF Throws(Head(list))
       THEN <<Call("listener", ev, Head(list), data), Call("throw", ev, Head(list), 0)>>
       ELSE <<Call("listener", ev, Head(list), data)>>
              \o ListenerCallsUncaught(Tail(list), ev, data)

\* The forEach of emit: each listener is called inside a try; what it throws
\* is caught and passed to console.error.
RECURSIVE ListenerCalls(_, _, _)
ListenerCalls(list, ev, data) ==
  IF list = <<>> THEN <<>>
  ELSE <<Call("listener", ev, Head(list), data)>>
         \o (IF Throws(Head(list)) THEN <<Call("error", ev, Head(list), 0)>> ELSE <<>>)
         \o ListenerCalls(Tail(list), ev, data)

\* Fault: emit whose listeners run outside any try.
emitUncaught(listeners, ev, data) ==
  <<Call("emit", ev, data, 0)>> \o ListenerCallsUncaught(listeners[ev], ev, data)

\* World.emit(eventName, data) and InputSystem.emit(eventName, data): the
\* emit itself, then each listener of the event in subscription order.
emit(listeners, ev, data) ==
  <<Call("emit", ev, data, 0)>> \o ListenerCalls(listeners[ev], ev, data)

\* Fault: the hook is called on every system, matching or not.
EntityHooksUnfiltered(kind, seq, e) ==
  [i \in 1..Len(seq) |-> Call(kind, "", seq[i], e)]

\* Hook calls made by a forEach over `seq` of systems for entity e.
EntityHooks(kind, seq, e) ==
  LET hit == SelectSeq(seq, LAMBDA s : matches(s, e))
  IN  [i \in 1..Len(hit) |-> Call(kind, "", hit[i], e)]

\* Hook calls made by a forEach over the registered entities for system s.
SystemHooks(kind, s, seq) ==
  LET hit == SelectSeq(seq, LAMBDA e : matches(s, e))
  IN  [i \in 1..Len(hit) |-> Call(kind, "", s, hit[i])]

\* Array.prototype.sort with comparator a.getPriority() - b.getPriority():
\* a stable sort (ECMAScript 2019), here by insertion.
RECURSIVE InsertByPriority(_, _)
InsertByPriority(sorted, s) ==
  IF sorted = <<>> THEN <<s>>
  ELSE IF sysPriority[sorted[Len(sorted)]] - sysPriority[s] > 0
       THEN InsertByPriority(SubSeq(sorted, 1, Len(sorted) - 1), s)
            \o <<sorted[Len(sorted)]>>
       ELSE sorted \o <<s>>

RECURSIVE SortByPriority(_)
SortByPriority(seq) ==
  IF seq = <<>> THEN <<>>
  ELSE InsertByPriority(SortByPriority(SubSeq(seq, 1, Len(seq) - 1)), seq[Len(seq)])

\* ----------------------------------------------------- Physics component
\* The entities the PhysicsSystem matches, in registration order.  A body is
\* the Physics component of one of them together with the x and y of its
\* Transform (which has no parent).  Left out: the z axis, rotation, forces
\* and impulses (none is added), maxSpeed and minSpeed (left at Infinity and
\* 0), the collision group and mask (left at 'default'); every body is a
\* circle.
Bodies == 1..NumBodies

\* Constructor data: a number left out reads as 0 and a string as "", which
\* `||` treats alike; a flag left out reads as its default.  A mask left out
\* is NoMask (an empty array is kept by `||`).
NoMask == {""}
NoData ==
  [x |-> Num(0), y |-> Num(0), velocityX |-> Num(0), velocityY |-> Num(0),
   accelerationX |-> Num(0), accelerationY |-> Num(0),
   friction |-> Num(0), airResistance |-> Num(0),
   gravityX |-> Num(0), gravityY |-> Num(0), gravityScale |-> Num(0),
   mass |-> Num(0), angularVelocity |-> Num(0), angularAcceleration |-> Num(0),
   rotation |-> Num(0),
   collisionEnabled |-> TRUE, collisionGroup |-> "", collisionMask |-> NoMask,
   collisionShape |-> "", collisionWidth |-> Num(0), collisionHeight |-> Num(0),
   collisionRadius |-> Num(0), collisionPolygon |-> <<>>, bounceFactor |-> Num(0),
   isKinematic |-> FALSE, isStatic |-> FALSE, isSleeping |-> FALSE]

\* value || default
Or(value, default) == IF value = Num(0) \/ IsNaN(value) THEN default ELSE value

\* new Transform(data) and new Physics(data)
NewBody(data) ==
  [x |-> Or(data.x, Num(0)), y |-> Or(data.y, Num(0)),
   velocityX |-> Or(data.velocityX, Num(0)),
   velocityY |-> Or(data.velocityY, Num(0)),
   accelerationX |-> Or(data.accelerationX, Num(0)),
   accelerationY |-> Or(data.accelerationY, Num(0)),
   friction |-> Or(data.friction, Frac(1, 10)),
   airResistance |-> Or(data.airResistance, Frac(1, 100)),
   gravityX |-> Or(data.gravityX, Num(0)),
   gravityY |-> Or(data.gravityY, Num(0)),
   gravityScale |-> Or(data.gravityScale, Num(1)),
   mass |-> Or(data.mass, Num(1)),
   angularVelocity |-> Or(data.angularVelocity, Num(0)),
   angularAcceleration |-> Or(data.angularAcceleration, Num(0)),
   rotation |-> Or(data.rotation, Num(0)),
   collisionEnabled |-> data.collisionEnabled,
   collisionGroup |-> IF data.collisionGroup = "" THEN "default"
                      ELSE data.collisionGroup,
   collisionMask |-> IF data.collisionMask = NoMask THEN {"default"}
                     ELSE data.collisionMask,
   collisionPolygon |-> data.collisionPolygon,
   collisionShape |-> IF data.collisionShape = "" THEN "rectangle"
                      ELSE data.collisionShape,
   collisionWidth |-> Or(data.collisionWidth, Num(0)),
   collisionHeight |-> Or(data.collisionHeight, Num(0)),
   collisionRadius |-> Or(data.collisionRadius, Num(0)),
   bounceFactor |-> Or(data.bounceFactor, Frac(1, 2)),
   isKinematic |-> data.isKinematic,
   isStatic |-> data.isStatic,
   isSleeping |-> data.isSleeping,
   collisions |-> <<>>,
   isColliding |-> FALSE,
   forces |-> <<>>,
   impulses |-> <<>>]

\* The gravity Physics.update adds to the acceleration.
GravityApplied(p) ==
  <<RMul(p.gravityX, p.gravityScale), RMul(p.gravityY, p.gravityScale)>>

\* The sum of field f of the records of a sequence, each divided by mass.
RECURSIVE SumOver(_, _, _)
SumOver(seq, f, mass) ==
  IF seq = <<>> THEN Num(0)
  ELSE RAdd(RDiv(Head(seq)[f], mass), SumOver(Tail(seq), f, mass))

\* The forces that stay queued after a step: the continuous ones
\* (duration 0) and the timed ones whose elapsed time is below their duration.
RECURSIVE activeForces(_, _)
activeForces(forces, deltaTime) ==
  IF forces = <<>> THEN <<>>
  ELSE LET force == [Head(forces) EXCEPT !.elapsed = RAdd(@, deltaTime)]
       IN  (IF force.duration = Num(0) \/ RLess(force.elapsed, force.duration)
            THEN <<force>> ELSE <<>>) \o activeForces(Tail(forces), deltaTime)

\* Physics.update(deltaTime, transform), with the default maxSpeed (Infinity)
\* and minSpeed (0): the two speed limits never apply.
PhysicsStep(p, deltaTime) ==
  IF p.isSleeping \/ p.isStatic THEN p
  ELSE
    LET gx == IF ~p.isKinematic
              THEN RAdd(p.accelerationX, GravityApplied(p)[1]) ELSE p.accelerationX
        gy == IF ~p.isKinematic
              THEN RAdd(p.accelerationY, GravityApplied(p)[2]) ELSE p.accelerationY
        vx0 == RAdd(p.velocityX, SumOver(p.impulses, "x", p.mass))
        vy0 == RAdd(p.velocityY, SumOver(p.impulses, "y", p.mass))
        ax == RAdd(gx, SumOver(p.forces, "x", p.mass))
        ay == RAdd(gy, SumOver(p.forces, "y", p.mass))
        forces == activeForces(p.forces, deltaTime)
        vx1 == RAdd(vx0, RMul(ax, deltaTime))
        vy1 == RAdd(vy0, RMul(ay, deltaTime))
        friction == IF p.isColliding THEN p.friction ELSE p.airResistance
        vx == IF ~p.isKinematic THEN RMul(vx1, RSub(Num(1), friction)) ELSE vx1
        vy == IF ~p.isKinematic THEN RMul(vy1, RSub(Num(1), friction)) ELSE vy1
        speed == Hypot(vx, vy)
        angularVelocity == RAdd(p.angularVelocity,
                                RMul(p.angularAcceleration, deltaTime))
    IN  [p EXCEPT !.velocityX = vx, !.velocityY = vy,
                  !.impulses = <<>>, !.forces = forces,
                  !.angularVelocity = angularVelocity,
                  !.x = RAdd(p.x, RMul(vx, deltaTime)),
                  !.y = RAdd(p.y, RMul(vy, deltaTime)),
                  !.rotation = RAdd(p.rotation, RMul(angularVelocity, deltaTime)),
                  !.accelerationX = IF forces = <<>> THEN Num(0) ELSE ax,
                  !.accelerationY = IF forces = <<>> THEN Num(0) ELSE ay,
                  !.angularAcceleration = IF forces = <<>> THEN Num(0) ELSE @,
                  !.isSleeping = RLess(speed, Frac(1, 10))
                                   /\ RLess(RAbs(angularVelocity), Frac(1, 10))]

\* The least and the greatest of the coordinates c of the points of a polygon.
RECURSIVE MinOf(_, _)
MinOf(points, c) ==
  IF Len(points) = 1 THEN points[1][c]
  ELSE LET rest == MinOf(Tail(points), c)
       IN  IF points[1][c] < rest THEN points[1][c] ELSE rest
RECURSIVE MaxOf(_, _)
MaxOf(points, c) ==
  IF Len(points) = 1 THEN points[1][c]
  ELSE LET rest == MaxOf(Tail(points), c)
       IN  IF points[1][c] > rest THEN points[1][c] ELSE rest

\* Physics.getBounds(transform) of a rectangle, a circle or a polygon that has
\* at least one point (points are whole numbers, relative to the position).
getBounds(p) ==
  IF p.collisionShape = "rectangle"
  THEN [x |-> RSub(p.x, RDiv(p.collisionWidth, Num(2))),
        y |-> RSub(p.y, RDiv(p.collisionHeight, Num(2))),
        width |-> p.collisionWidth, height |-> p.collisionHeight]
  ELSE IF p.collisionShape = "circle"
  THEN [x |-> RSub(p.x, p.collisionRadius), y |-> RSub(p.y, p.collisionRadius),
        width |-> RMul(p.collisionRadius, Num(2)),
        height |-> RMul(p.collisionRadius, Num(2))]
  ELSE [x |-> RAdd(p.x, Num(MinOf(p.collisionPolygon, 1))),
        y |-> RAdd(p.y, Num(MinOf(p.collisionPolygon, 2))),
        width |-> Num(MaxOf(p.collisionPolygon, 1) - MinOf(p.collisionPolygon, 1)),
        height |-> Num(MaxOf(p.collisionPolygon, 2) - MinOf(p.collisionPolygon, 2))]

NoCollision == [hit |-> FALSE]

\* Fault: the circle test applied to every pair of shapes.
performShapeCollisionOfAny(p, other) ==
  LET dx == RSub(other.x, p.x)
      dy == RSub(other.y, p.y)
      distance == Hypot(dx, dy)
      radiusSum == RAdd(p.collisionRadius, other.collisionRadius)
  IN  IF RLess(distance, radiusSum)
      THEN [hit |-> TRUE, normalX |-> RDiv(dx, distance),
            normalY |-> RDiv(dy, distance), depth |-> RSub(radiusSum, distance)]
      ELSE NoCollision

\* Physics.performShapeCollision(other, transform, otherTransform)
performShapeCollision(p, other) ==
  LET dx == RSub(other.x, p.x)
      dy == RSub(other.y, p.y)
      distance == Hypot(dx, dy)
      radiusSum == RAdd(p.collisionRadius, other.collisionRadius)
  IN  IF /\ p.collisionShape = "circle" /\ other.collisionShape = "circle"
         /\ RLess(distance, radiusSum)
      THEN [hit |-> TRUE, normalX |-> RDiv(dx, distance),
            normalY |-> RDiv(dy, distance), depth |-> RSub(radiusSum, distance)]
      ELSE NoCollision

\* Fault: checkCollision that tests this body's mask only.
checkCollisionOneWay(p, other) ==
  IF ~p.collisionEnabled \/ ~other.collisionEnabled THEN NoCollision
  ELSE IF other.collisionGroup \notin p.collisionMask THEN NoCollision
  ELSE performShapeCollision(p, other)

\* Physics.checkCollision(other, transform, otherTransform)
checkCollision(p, other) ==
  LET bounds1 == getBounds(p)
      bounds2 == getBounds(other)
  IN  IF ~p.collisionEnabled \/ ~other.collisionEnabled THEN NoCollision
      ELSE IF other.collisionGroup \notin p.collisionMask THEN NoCollision
      ELSE IF p.collisionGroup \notin other.collisionMask THEN NoCollision
      ELSE IF \/ RLess(RAdd(bounds1.x, bounds1.width), bounds2.x)
              \/ RLess(RAdd(bounds2.x, bounds2.width), bounds1.x)
              \/ RLess(RAdd(bounds1.y, bounds1.height), bounds2.y)
              \/ RLess(RAdd(bounds2.y, bounds2.height), bounds1.y)
           THEN NoCollision
           ELSE performShapeCollision(p, other)

\* Fault: the response of lines 428-435 applied to every body, without the
\* isStatic and isKinematic tests.
handleCollisionOfAny(p, collision, other) ==
  LET dotProduct == RAdd(RMul(p.velocityX, collision.normalX),
                         RMul(p.velocityY, collision.normalY))
      bounce == RMul(dotProduct, RAdd(Num(1), p.bounceFactor))
  IN  [p EXCEPT !.isColliding = TRUE,
                !.collisions = Append(@, [other |-> other,
                                          normalX |-> collision.normalX,
                                          normalY |-> collision.normalY,
                                          depth |-> collision.depth]),
                !.x = RAdd(@, RMul(RMul(collision.normalX, collision.depth),
                                   Frac(1, 2))),
                !.y = RAdd(@, RMul(RMul(collision.normalY, collision.depth),
                                   Frac(1, 2))),
                !.velocityX = RSub(@, RMul(collision.normalX, bounce)),
                !.velocityY = RSub(@, RMul(collision.normalY, bounce))]

\* Physics.handleCollision(collision, other), lines 415-421: the flag and the
\* record.  What follows for a body that is neither static nor kinematic is
\* `this.entity.getComponent(Transform)`, and Physics.js does not import
\* Transform: evaluating the name throws a ReferenceError.
handleCollision(p, collision, other) ==
  [p EXCEPT !.isColliding = TRUE,
            !.collisions = Append(@, [other |-> other,
                                      normalX |-> collision.normalX,
                                      normalY |-> collision.normalY,
                                      depth |-> collision.depth])]
ResponseThrows(p) == ~p.isStatic /\ ~p.isKinematic

\* Physics.clearCollisions()
clearCollisions(p) == [p EXCEPT !.isColliding = FALSE, !.collisions = <<>>]

\* ---------------------------------------------------------- PhysicsSystem
\* worldBounds is null or {x, y, width, height}.
NoBounds == [set |-> FALSE]
Bounds(x, y, width, height) ==
  [set |-> TRUE, x |-> x, y |-> y, width |-> width, height |-> height]

\* PhysicsSystem.updateEntityPhysics(entity, deltaTime), lines 110-115: the
\* body as Physics.update receives it.
WithSystemGravity(p) ==
  IF ~p.isKinematic
  THEN [p EXCEPT !.gravityX = physGravity[1], !.gravityY = physGravity[2]]
  ELSE p

\* Fault: updateEntityPhysics integrating a sleeping body like an awake one.
updateEntityPhysicsOfSleeper(p, deltaTime) ==
  IF p.isStatic THEN p
  ELSE PhysicsStep(WithSystemGravity([p EXCEPT !.isSleeping = FALSE]), deltaTime)

\* Fault: the integration step leaving the impulses in the queue.
updateEntityPhysicsKeepingImpulses(p, deltaTime) ==
  IF p.isStatic \/ p.isSleeping THEN p
  ELSE [PhysicsStep(WithSystemGravity(p), deltaTime) EXCEPT !.impulses = p.impulses]

\* PhysicsSystem.updateEntityPhysics(entity, deltaTime)
updateEntityPhysics(p, deltaTime) ==
  IF p.isStatic \/ p.isSleeping THEN p
  ELSE PhysicsStep(WithSystemGravity(p), deltaTime)

\* The pairs (i, j), i < j, in the order of the loops of detectCollisions.
PairSet == {q \in Bodies \X Bodies : q[1] < q[2]}
PairsBefore(q) ==
  {r \in PairSet : r[1] < q[1] \/ (r[1] = q[1] /\ r[2] < q[2])}
Pairs ==
  [k \in 1..Cardinality(PairSet) |->
     CHOOSE q \in PairSet : Cardinality(PairsBefore(q)) = k - 1]

\* PhysicsSystem.checkCollision(entityA, entityB), lines 155-169, on the
\* detection state st = [body, pairs, calls, thrown] with the collision found:
\* the response of A, then that of B, each of which may throw, then the entry
\* of collisionPairs.
HandlePair(st, a, b, collision) ==
  LET A == st.body[a]
      B == st.body[b]
      mirrored == [hit |-> TRUE, normalX |-> RNeg(collision.normalX),
                   normalY |-> RNeg(collision.normalY), depth |-> collision.depth]
      hitA == [st.body EXCEPT ![a] = handleCollision(A, collision, b)]
      hitB == [hitA EXCEPT ![b] = handleCollision(B, mirrored, a)]
      found == Append(st.calls, Call("collision", "", a, b))
  IN  IF ~A.collisionEnabled \/ ~B.collisionEnabled \/ ~collision.hit THEN st
      ELSE IF ResponseThrows(A)
           THEN [body |-> hitA, pairs |-> st.pairs, thrown |-> TRUE,
                 calls |-> Append(found, Call("throw", "ReferenceError", a, 0))]
      ELSE IF ResponseThrows(B)
           THEN [body |-> hitB, pairs |-> st.pairs, thrown |-> TRUE,
                 calls |-> Append(found, Call("throw", "ReferenceError", b, 0))]
      ELSE [body |-> hitB, pairs |-> Append(st.pairs, <<a, b>>),
            thrown |-> FALSE, calls |-> found]

\* PhysicsSystem.checkCollision(entityA, entityB) on the detection state
CheckPair(st, a, b) ==
  HandlePair(st, a, b, checkCollision(st.body[a], st.body[b]))

\* PhysicsSystem.detectCollisions(entities), from pair k on.
RECURSIVE detectCollisions(_, _)
detectCollisions(st, k) ==
  IF k > Len(Pairs) \/ st.thrown THEN st
  ELSE detectCollisions(CheckPair(st, Pairs[k][1], Pairs[k][2]), k + 1)

\* Fault: checkWorldBounds without the isStatic test.
checkWorldBoundsOfAny(p, worldBounds) ==
  LET bounds == getBounds(p)
      half == RDiv(bounds.width, Num(2))
      left == RLess(bounds.x, worldBounds.x)
      right == RLess(RAdd(worldBounds.x, worldBounds.width),
                     RAdd(bounds.x, bounds.width))
      top == RLess(bounds.y, worldBounds.y)
      bottom == RLess(RAdd(worldBounds.y, worldBounds.height),
                      RAdd(bounds.y, bounds.height))
  IN  [p EXCEPT
         !.x = IF right THEN RSub(RAdd(worldBounds.x, worldBounds.width), half)
               ELSE IF left THEN RAdd(worldBounds.x, half) ELSE @,
         !.y = IF bottom THEN RSub(RAdd(worldBounds.y, worldBounds.height), half)
               ELSE IF top THEN RAdd(worldBounds.y, half) ELSE @]

\* PhysicsSystem.checkWorldBounds(entity).  `bounds` is taken once, before
\* the four tests; a later test overrides an earlier one.
checkWorldBounds(p, worldBounds) ==
  IF p.isStatic THEN p
  ELSE
    LET bounds == getBounds(p)
        halfW == RDiv(bounds.width, Num(2))
        halfH == RDiv(bounds.height, Num(2))
        left == RLess(bounds.x, worldBounds.x)
        right == RLess(RAdd(worldBounds.x, worldBounds.width),
                       RAdd(bounds.x, bounds.width))
        top == RLess(bounds.y, worldBounds.y)
        bottom == RLess(RAdd(worldBounds.y, worldBounds.height),
                        RAdd(bounds.y, bounds.height))
        vx1 == IF left THEN RMul(RAbs(p.velocityX), p.bounceFactor) ELSE p.velocityX
        vx2 == IF right THEN RNeg(RMul(RAbs(vx1), p.bounceFactor)) ELSE vx1
        vy1 == IF top THEN RMul(RAbs(p.velocityY), p.bounceFactor) ELSE p.velocityY
        vy2 == IF bottom THEN RNeg(RMul(RAbs(vy1), p.bounceFactor)) ELSE vy1
    IN  [p EXCEPT
           !.x = IF right THEN RSub(RAdd(worldBounds.x, worldBounds.width), halfW)
                 ELSE IF left THEN RAdd(worldBounds.x, halfW) ELSE @,
           !.y = IF bottom THEN RSub(RAdd(worldBounds.y, worldBounds.height), halfH)
                 ELSE IF top THEN RAdd(worldBounds.y, halfH) ELSE @,
           !.velocityX = vx2, !.velocityY = vy2]

InitObjects ==
  /\ entComponents = [e \in EntityObjs |-> NoComponents]
  /\ entEnabled = [e \in EntityObjs |-> TRUE]
  /\ compEntity = [c \in Comps |-> None]
  /\ entTags = [e \in EntityObjs |-> {}]
  /\ sysEnabled = [s \in SystemObjs |-> TRUE]
  /\ sysPriority = [s \in SystemObjs |-> 0]
  /\ sysRequired = [s \in SystemObjs |-> ClassRequired(getName(s))]
  /\ entities = <<>>
  /\ systems = <<>>
  /\ entityCounter = 0
  /\ isRunning = FALSE
  /\ lastUpdateTime = 0
  /\ eventListeners = [ev \in EventNames |-> <<>>]
  /\ inputListeners = [ev \in InputEvents |-> <<>>]
  /\ lastOp = Op("new", 0, "")
  /\ ret = None
  /\ raised = FALSE
  /\ calls = <<>>
  /\ physGravity = <<Num(0), Num(980)>>
  /\ physBounds = NoBounds
  /\ collisionPairs = <<>>
  /\ frames = 0
  /\ emitterEvents = <<>>

\* The value of the history where it is not kept.
NotKept == {<<0, 0>>}

InitWorld == InitObjects /\ hooked = NotKept

\* After construction, every Physics made by `new Physics()`.
Init ==
  /\ InitWorld
  /\ body = [b \in Bodies |-> NewBody(NoData)]


\* An exception that leaves the call is the record "throw" at the point where
\* it was thrown.
Escaped(c) == \E i \in 1..Len(c) : c[i].k = "throw"

\* The outstanding onEntityAdded calls after the calls of seq, in order.
RECURSIVE Outstanding(_, _)
Outstanding(pairs, seq) ==
  IF seq = <<>> THEN pairs
  ELSE LET call == Head(seq)
           pair == <<call.a, call.b>>
       IN  Outstanding(IF call.k = "onEntityAdded" THEN pairs \cup {pair}
                       ELSE IF call.k = "onEntityRemoved" THEN pairs \ {pair}
                       ELSE pairs,
                       Tail(seq))

Observe(op, r, c) ==
  /\ lastOp' = op
  /\ ret' = r
  /\ raised' = Escaped(c)
  /\ calls' = c
  /\ hooked' = IF hooked = NotKept THEN hooked ELSE Outstanding(hooked, c)

\* --------------------------------------------------------- Entity actions
\* Fault: addComponent that keeps a component already stored under the type.
AddComponentKeepFirst(e, c) ==
  /\ entComponents' = [entComponents EXCEPT ![e][TypeOf(c)] =
                         IF @ = NoComp THEN c ELSE @]
  /\ compEntity' = [compEntity EXCEPT ![c] = e]
  /\ Observe(Op("addComponent", e, c), e, <<>>)
  /\ UNCHANGED <<emitterVars, inputVars, physVars, tagVars, entEnabled, systemVars, worldVars>>

\* Entity.addComponent(component)
AddComponent(e, c) ==
  /\ entComponents' = [entComponents EXCEPT ![e][TypeOf(c)] = c]
  /\ compEntity' = [compEntity EXCEPT ![c] = e]
  /\ Observe(Op("addComponent", e, c), e, <<>>)
  /\ UNCHANGED <<emitterVars, inputVars, physVars, tagVars, entEnabled, systemVars, worldVars>>

\* What evaluating componentClass.name on null or undefined does.
TypeError(e) == <<Call("throw", "TypeError", e, 0)>>

\* Entity.getComponent(componentClass): a falsy argument is logged and
\* answered with null.
GetComponent(e, T) ==
  /\ IF T = NullType
     THEN Observe(Op("getComponent", e, T), NoComp, <<Warn>>)
     ELSE Observe(Op("getComponent", e, T), entComponents[e][T], <<>>)
  /\ UNCHANGED <<emitterVars, inputVars, physVars, tagVars, entityVars, systemVars, worldVars>>

\* Entity.hasComponent(componentClass), called from outside: the argument's
\* name is read without a test.
HasComponent(e, T) ==
  /\ IF T = NullType
     THEN Observe(Op("hasComponent", e, T), None, TypeError(e))
     ELSE Observe(Op("hasComponent", e, T), hasComponent(entComponents, e, T), <<>>)
  /\ UNCHANGED <<emitterVars, inputVars, physVars, tagVars, entityVars, systemVars, worldVars>>

\* Entity.removeComponent(componentClass): the argument's name is read
\* without a test.
RemoveComponent(e, T) ==
  LET component == IF T = NullType THEN NoComp ELSE entComponents[e][T] IN
  /\ IF component # NoComp
     THEN /\ compEntity' = [compEntity EXCEPT ![component] = None]
          /\ entComponents' = [entComponents EXCEPT ![e][T] = NoComp]
     ELSE UNCHANGED <<entComponents, compEntity>>
  /\ IF T = NullType
     THEN Observe(Op("removeComponent", e, T), None, TypeError(e))
     ELSE Observe(Op("removeComponent", e, T), component # NoComp, <<>>)
  /\ UNCHANGED <<emitterVars, inputVars, physVars, tagVars, entEnabled, systemVars, worldVars>>

\* Entity.addTag(tag) / Entity.removeTag(tag)
AddTag(e, tag) ==
  /\ entTags' = [entTags EXCEPT ![e] = @ \cup {tag}]
  /\ Observe(Op("addTag", e, tag), e, <<>>)
  /\ UNCHANGED <<emitterVars, inputVars, physVars, entityVars, systemVars, worldVars>>

RemoveTag(e, tag) ==
  /\ entTags' = [entTags EXCEPT ![e] = @ \ {tag}]
  /\ Observe(Op("removeTag", e, tag), tag \in entTags[e], <<>>)
  /\ UNCHANGED <<emitterVars, inputVars, physVars, entityVars, systemVars, worldVars>>

\* Entity.enable() / Entity.disable()
EntityEnable(e) ==
  /\ entEnabled' = [entEnabled EXCEPT ![e] = TRUE]
  /\ Observe(Op("entity.enable", e, ""), None, <<>>)
  /\ UNCHANGED <<emitterVars, inputVars, physVars, tagVars, entComponents, compEntity, systemVars, worldVars>>

EntityDisable(e) ==
  /\ entEnabled' = [entEnabled EXCEPT ![e] = FALSE]
  /\ Observe(Op("entity.disable", e, ""), None, <<>>)
  /\ UNCHANGED <<emitterVars, inputVars, physVars, tagVars, entComponents, compEntity, systemVars, worldVars>>

\* --------------------------------------------------------- System actions
\* System.enable() / System.disable()
SystemEnable(s) ==
  /\ sysEnabled' = [sysEnabled EXCEPT ![s] = TRUE]
  /\ Observe(Op("system.enable", s, ""), None, <<>>)
  /\ UNCHANGED <<emitterVars, inputVars, physVars, tagVars, entityVars, sysPriority, sysRequired, worldVars>>

SystemDisable(s) ==
  /\ sysEnabled' = [sysEnabled EXCEPT ![s] = FALSE]
  /\ Observe(Op("system.disable", s, ""), None, <<>>)
  /\ UNCHANGED <<emitterVars, inputVars, physVars, tagVars, entityVars, sysPriority, sysRequired, worldVars>>

\* System.setPriority(priority)
SetPriority(s, p) ==
  /\ sysPriority' = [sysPriority EXCEPT ![s] = p]
  /\ Observe(Op("setPriority", s, ""), s, <<>>)
  /\ UNCHANGED <<emitterVars, inputVars, physVars, tagVars, entityVars, sysEnabled, sysRequired, worldVars>>

\* System.setRequiredComponents(componentClasses)
SetRequiredComponents(s, R) ==
  /\ sysRequired' = [sysRequired EXCEPT ![s] = R]
  /\ Observe(Op("setRequiredComponents", s, ""), s, <<>>)
  /\ UNCHANGED <<emitterVars, inputVars, physVars, tagVars, entityVars, sysEnabled, sysPriority, worldVars>>

\* System.getMatchingEntities(), on a system whose world is this world
GetMatchingEntities(s) ==
  /\ Observe(Op("getMatchingEntities", s, ""), getMatchingEntities(s), <<>>)
  /\ UNCHANGED <<emitterVars, inputVars, physVars, tagVars, entityVars, systemVars, worldVars>>

\* ---------------------------------------------------------- World actions

\* World.addEntity, lines 47-54: the forEach over the systems, then the event.
AddEntityCalls(e) ==
  EntityHooks("onEntityAdded", systems, e) \o emit(eventListeners, "entityAdded", e)

\* Fault: addEntity without the duplicate test (Map.set overwrites).
AddEntityOverwrite(e) ==
  /\ entityCounter < MaxCounter
  /\ entities' = IF EntityWithId(EntityId(e)) # None
                 THEN [i \in 1..Len(entities) |->
                         IF EntityId(entities[i]) = EntityId(e) THEN e ELSE entities[i]]
                 ELSE Append(entities, e)
  /\ entityCounter' = entityCounter + 1
  /\ Observe(Op("addEntity", e, ""), TRUE, AddEntityCalls(e))
  /\ UNCHANGED <<emitterVars, inputVars, physVars, tagVars, entityVars, systemVars, systems, isRunning, lastUpdateTime,
                 eventListeners>>

\* World.addEntity(entity)
AddEntity(e) ==
  /\ EntityWithId(EntityId(e)) # None \/ entityCounter < MaxCounter
  /\ IF EntityWithId(EntityId(e)) # None
     THEN /\ Observe(Op("addEntity", e, ""), FALSE, <<Warn>>)
          /\ UNCHANGED <<entities, entityCounter>>
     ELSE /\ entities' = Append(entities, e)
          /\ entityCounter' = entityCounter + 1
          /\ Observe(Op("addEntity", e, ""), TRUE, AddEntityCalls(e))
  /\ UNCHANGED <<emitterVars, inputVars, physVars, tagVars, entityVars, systemVars, systems, isRunning, lastUpdateTime,
                 eventListeners>>

\* World.createEntity(id), lines 27-31: `new Entity(id)` is object e (enabled,
\* without components or tags), handed to addEntity whose result is dropped;
\* the new object is what the call returns.
CreateEntity(e) ==
  /\ e \notin Range(entities)
  /\ entEnabled[e] /\ entComponents[e] = NoComponents /\ entTags[e] = {}
  /\ EntityWithId(EntityId(e)) # None \/ entityCounter < MaxCounter
  /\ IF EntityWithId(EntityId(e)) # None
     THEN /\ Observe(Op("createEntity", e, ""), e, <<Warn>>)
          /\ UNCHANGED <<entities, entityCounter>>
     ELSE /\ entities' = Append(entities, e)
          /\ entityCounter' = entityCounter + 1
          /\ Observe(Op("createEntity", e, ""), e, AddEntityCalls(e))
  /\ UNCHANGED <<emitterVars, inputVars, physVars, tagVars, entityVars, systemVars, systems, isRunning, lastUpdateTime,
                 eventListeners>>

\* World.removeEntity, lines 71-80: the forEach over the systems, then the
\* event (entity.destroy() and the delete run in between).
RemoveEntityCalls(entity) ==
  EntityHooks("onEntityRemoved", systems, entity)
    \o emit(eventListeners, "entityRemoved", entity)

\* Fault: removeEntity without entity.destroy().
RemoveEntityKeepsContents(e) ==
  LET entity == EntityWithId(EntityId(e)) IN
  /\ IF entity = None
     THEN /\ Observe(Op("removeEntity", e, ""), FALSE, <<>>)
          /\ UNCHANGED entities
     ELSE /\ entities' = Without(entities, entity)
          /\ Observe(Op("removeEntity", e, ""), TRUE, RemoveEntityCalls(entity))
  /\ UNCHANGED <<emitterVars, inputVars, physVars, tagVars, entityVars, systemVars, systems, entityCounter,
                 isRunning, lastUpdateTime, eventListeners>>

\* World.removeEntity(entityOrId): the argument is resolved to an id, and the
\* entity registered under that id is the one removed.
RemoveEntity(e) ==
  LET entity == EntityWithId(EntityId(e)) IN
  /\ IF entity = None
     THEN /\ Observe(Op("removeEntity", e, ""), FALSE, <<>>)
          /\ UNCHANGED <<entityVars, entTags, entities>>
     ELSE /\ compEntity' = DestroyedBackrefs(compEntity, entComponents, entity)
          /\ entComponents' = [entComponents EXCEPT ![entity] = NoComponents]
          /\ entTags' = [entTags EXCEPT ![entity] = {}]
          /\ entities' = Without(entities, entity)
          /\ Observe(Op("removeEntity", e, ""), TRUE, RemoveEntityCalls(entity))
          /\ UNCHANGED entEnabled
  /\ UNCHANGED <<emitterVars, inputVars, physVars, systemVars, systems, entityCounter, isRunning, lastUpdateTime,
                 eventListeners>>

\* Fault: addSystem notifying the system of every registered entity.
AddSystemCallsEveryEntity(s) ==
  <<Call("init", "", s, 0)>>
    \o [i \in 1..Len(entities) |-> Call("onEntityAdded", "", s, entities[i])]
    \o emit(eventListeners, "systemAdded", s)

\* World.addSystem, lines 138-148: init, the forEach over the entities, the
\* event.
AddSystemCalls(s) ==
  <<Call("init", "", s, 0)>>
    \o SystemHooks("onEntityAdded", s, entities)
    \o emit(eventListeners, "systemAdded", s)

\* World.addSystem(system)
AddSystem(s) ==
  /\ IF SystemWithName(getName(s)) # None
     THEN /\ Observe(Op("addSystem", s, ""), FALSE, <<Warn>>)
          /\ UNCHANGED systems
     ELSE /\ systems' = Append(systems, s)
          /\ Observe(Op("addSystem", s, ""), TRUE, AddSystemCalls(s))
  /\ UNCHANGED <<emitterVars, inputVars, physVars, tagVars, entityVars, systemVars, entities, entityCounter, isRunning,
                 lastUpdateTime, eventListeners>>

\* World.removeSystem(systemOrName)
RemoveSystem(s) ==
  LET system == SystemWithName(getName(s)) IN
  /\ IF system = None
     THEN /\ Observe(Op("removeSystem", s, ""), FALSE, <<>>)
          /\ UNCHANGED systems
     ELSE /\ systems' = Without(systems, system)
          /\ Observe(Op("removeSystem", s, ""), TRUE,
                     <<Call("destroy", "", system, 0)>>
                       \o emit(eventListeners, "systemRemoved", system))
  /\ UNCHANGED <<emitterVars, inputVars, physVars, tagVars, entityVars, systemVars, entities, entityCounter, isRunning,
                 lastUpdateTime, eventListeners>>

\* Fault: start without the isRunning test.
StartUnguarded(now) ==
  /\ isRunning' = TRUE
  /\ lastUpdateTime' = now
  /\ Observe(Op("start", now, ""), None, emit(eventListeners, "worldStarted", 0))
  /\ UNCHANGED <<emitterVars, inputVars, physVars, tagVars, entityVars, systemVars, entities, systems, entityCounter,
                 eventListeners>>

\* World.start(); now is the value of Date.now()
Start(now) ==
  /\ IF isRunning
     THEN /\ Observe(Op("start", now, ""), None, <<Warn>>)
          /\ UNCHANGED <<isRunning, lastUpdateTime>>
     ELSE /\ isRunning' = TRUE
          /\ lastUpdateTime' = now
          /\ Observe(Op("start", now, ""), None,
                     emit(eventListeners, "worldStarted", 0))
  /\ UNCHANGED <<emitterVars, inputVars, physVars, tagVars, entityVars, systemVars, entities, systems, entityCounter,
                 eventListeners>>

\* World.stop, lines 209-215: what it logs or emits.
StopCalls ==
  IF ~isRunning THEN <<Warn>> ELSE emit(eventListeners, "worldStopped", 0)

\* World.stop()
Stop ==
  /\ isRunning' = FALSE
  /\ Observe(Op("stop", 0, ""), None, StopCalls)
  /\ UNCHANGED <<emitterVars, inputVars, physVars, tagVars, entityVars, systemVars, entities, systems, entityCounter,
                 lastUpdateTime, eventListeners>>

\* Fault: update without the sort, in registration order.
UpdateOrderUnsorted == SelectSeq(systems, LAMBDA s : sysEnabled[s])

\* World.update, lines 233-240: the systems in the order update runs them.
UpdateOrder == SelectSeq(SortByPriority(systems), LAMBDA s : sysEnabled[s])

\* The systems whose update runs, in order: all of `order`, or those up to
\* and including the first that inherited System.update, which throws.
AllOverride(order) == \A i \in 1..Len(order) : OverridesUpdate(order[i])
Reached(order) ==
  IF AllOverride(order) THEN order
  ELSE SubSeq(order, 1, CHOOSE i \in 1..Len(order) :
                          /\ ~OverridesUpdate(order[i])
                          /\ \A j \in 1..(i - 1) : OverridesUpdate(order[j]))

\* Fault: update that catches what a system throws and goes on.
UpdateCallsCaught(currentTime) ==
  LET deltaTime == currentTime - lastUpdateTime
      order == UpdateOrder
  IN  [i \in 1..Len(order) |-> Call("update", "", order[i], deltaTime)]
        \o emit(eventListeners, "worldUpdated", deltaTime)

\* World.update, lines 229-242 (deltaTime is kept in ms, not divided by 1000).
\* System.update throws; nothing in World.update catches it, so the forEach
\* and update end there.
UpdateCalls(currentTime) ==
  LET deltaTime == currentTime - lastUpdateTime
      order == UpdateOrder
      reached == Reached(order)
  IN  [i \in 1..Len(reached) |-> Call("update", "", reached[i], deltaTime)]
        \o (IF AllOverride(order)
            THEN emit(eventListeners, "worldUpdated", deltaTime)
            ELSE <<Call("throw", "", reached[Len(reached)], 0)>>)

\* Fault: update without the isRunning test.
UpdateUnguarded(currentTime) ==
  /\ lastUpdateTime' = currentTime
  /\ Observe(Op("update", currentTime, ""), None, UpdateCalls(currentTime))
  /\ UNCHANGED <<emitterVars, inputVars, physVars, tagVars, entityVars, systemVars, entities, systems, entityCounter,
                 isRunning, eventListeners>>

\* World.update(currentTime)
Update(currentTime) ==
  /\ IF ~isRunning
     THEN /\ Observe(Op("update", currentTime, ""), None, <<>>)
          /\ UNCHANGED lastUpdateTime
     ELSE /\ lastUpdateTime' = currentTime
          /\ Observe(Op("update", currentTime, ""), None, UpdateCalls(currentTime))
  /\ UNCHANGED <<emitterVars, inputVars, physVars, tagVars, entityVars, systemVars, entities, systems, entityCounter,
                 isRunning, eventListeners>>

\* World.update, lines 233-242, when the update of system `remover` calls
\* world.removeSystem(victim): sortedSystems is an array made before the
\* forEach, so the pass goes on over the systems that were registered when
\* it began.
RECURSIVE TickCalls(_, _, _, _)
TickCalls(order, remover, removed, deltaTime) ==
  IF order = <<>> THEN <<>>
  ELSE <<Call("update", "", Head(order), deltaTime)>>
         \o (IF Head(order) = remover /\ removed # None
             THEN <<Call("destroy", "", removed, 0)>>
                    \o emit(eventListeners, "systemRemoved", removed)
             ELSE <<>>)
         \o TickCalls(Tail(order), remover, removed, deltaTime)

\* World.update(currentTime) of a running world in which the update of the
\* registered, enabled system `remover` calls world.removeSystem(victim).
UpdateRemoving(currentTime, remover, victim) ==
  LET removed == SystemWithName(getName(victim))
      deltaTime == currentTime - lastUpdateTime
  IN
  /\ isRunning
  /\ remover \in Range(UpdateOrder)
  /\ AllOverride(UpdateOrder)
  /\ lastUpdateTime' = currentTime
  /\ systems' = IF removed = None THEN systems ELSE Without(systems, removed)
  /\ Observe(Op("update", currentTime, <<remover, victim>>), None,
             TickCalls(UpdateOrder, remover, removed, deltaTime)
               \o emit(eventListeners, "worldUpdated", deltaTime))
  /\ UNCHANGED <<emitterVars, inputVars, physVars, tagVars, entityVars, systemVars, entities, entityCounter,
                 isRunning, eventListeners>>

\* World.clear, lines 250-262: system.destroy() per system, then the event
\* (Entity.destroy has no hook).
ClearCalls ==
  [i \in 1..Len(systems) |-> Call("destroy", "", systems[i], 0)]
    \o emit(eventListeners, "worldCleared", 0)

\* Entity.destroy() on every registered entity.
RECURSIVE ClearedBackrefs(_, _)
ClearedBackrefs(back, seq) ==
  IF seq = <<>> THEN back
  ELSE ClearedBackrefs(DestroyedBackrefs(back, entComponents, seq[1]), Tail(seq))

ClearedComponents ==
  [e \in EntityObjs |-> IF e \in Range(entities) THEN NoComponents
                        ELSE entComponents[e]]

ClearedTags ==
  [e \in EntityObjs |-> IF e \in Range(entities) THEN {} ELSE entTags[e]]

\* World.clear()
Clear ==
  /\ systems' = <<>>
  /\ compEntity' = ClearedBackrefs(compEntity, entities)
  /\ entComponents' = ClearedComponents
  /\ entTags' = ClearedTags
  /\ entities' = <<>>
  /\ entityCounter' = 0
  /\ Observe(Op("clear", 0, ""), None, ClearCalls)
  /\ UNCHANGED <<emitterVars, inputVars, physVars, entEnabled, systemVars, isRunning, lastUpdateTime, eventListeners>>

\* World.destroy, lines 271-272: the listeners are dropped, then the event is
\* emitted.
NoListeners == [ev \in EventNames |-> <<>>]
DestroyEmit == emit(NoListeners, "worldDestroyed", 0)

\* Fault: destroy that does not call clear().
DestroyWithoutClear ==
  /\ isRunning' = FALSE
  /\ eventListeners' = NoListeners
  /\ Observe(Op("destroy", 0, ""), None, StopCalls \o DestroyEmit)
  /\ UNCHANGED <<emitterVars, inputVars, physVars, tagVars, entityVars, systemVars, entities, systems, entityCounter,
                 lastUpdateTime>>

\* World.destroy(): stop(), clear(), eventListeners.clear(), emit.
Destroy ==
  /\ isRunning' = FALSE
  /\ systems' = <<>>
  /\ compEntity' = ClearedBackrefs(compEntity, entities)
  /\ entComponents' = ClearedComponents
  /\ entTags' = ClearedTags
  /\ entities' = <<>>
  /\ entityCounter' = 0
  /\ eventListeners' = NoListeners
  /\ Observe(Op("destroy", 0, ""), None, StopCalls \o ClearCalls \o DestroyEmit)
  /\ UNCHANGED <<emitterVars, inputVars, physVars, entEnabled, systemVars, lastUpdateTime>>

\* World.on(eventName, listener)
On(ev, l) ==
  /\ Len(eventListeners[ev]) < MaxListeners
  /\ eventListeners' = [eventListeners EXCEPT ![ev] = Append(@, l)]
  /\ Observe(Op("on", l, ev), None, <<>>)
  /\ UNCHANGED <<emitterVars, inputVars, physVars, tagVars, entityVars, systemVars, entities, systems, entityCounter,
                 isRunning, lastUpdateTime>>

\* World.off(eventName, listener): splices the first occurrence out.
Off(ev, l) ==
  LET listeners == eventListeners[ev]
      index == IndexOf(listeners, l)
  IN
  /\ IF index # 0
     THEN eventListeners' = [eventListeners EXCEPT ![ev] =
            SubSeq(listeners, 1, index - 1) \o SubSeq(listeners, index + 1, Len(listeners))]
     ELSE UNCHANGED eventListeners
  /\ Observe(Op("off", l, ev), None, <<>>)
  /\ UNCHANGED <<emitterVars, inputVars, physVars, tagVars, entityVars, systemVars, entities, systems, entityCounter,
                 isRunning, lastUpdateTime>>

\* World.emit(eventName, data), called from outside
Emit(ev, data) ==
  /\ Observe(Op("emit", data, ev), None, emit(eventListeners, ev, data))
  /\ UNCHANGED <<emitterVars, inputVars, physVars, tagVars, entityVars, systemVars, worldVars>>

\* The forEach of World.emit, line 310, from index k on, when the listener
\* `remover` calls off(ev, victim) each time it runs: off splices the array
\* the forEach is walking, and forEach visits the indices that still exist.
\* st = [listeners, calls].
RECURSIVE emitLive(_, _, _, _, _, _)
emitLive(st, k, remover, victim, ev, data) ==
  IF k > Len(st.listeners) THEN st
  ELSE
    LET l == st.listeners[k]
        index == IndexOf(st.listeners, victim)
        called == Append(st.calls, Call("listener", ev, l, data))
    IN  emitLive(
          [listeners |-> IF l = remover /\ index # 0
                         THEN SubSeq(st.listeners, 1, index - 1)
                                \o SubSeq(st.listeners, index + 1, Len(st.listeners))
                         ELSE st.listeners,
           calls |-> IF Throws(l) THEN Append(called, Call("error", ev, l, 0))
                     ELSE called],
          k + 1, remover, victim, ev, data)

\* World.emit(eventName, data) in which the subscribed listener `remover`
\* calls world.off(eventName, victim).
EmitRemoving(ev, data, remover, victim) ==
  \E st \in {emitLive([listeners |-> eventListeners[ev],
                       calls |-> <<Call("emit", ev, data, 0)>>],
                      1, remover, victim, ev, data)} :
  /\ remover \in Range(eventListeners[ev])
  /\ eventListeners' = [eventListeners EXCEPT ![ev] = st.listeners]
  /\ Observe(Op("emit", data, ev), None, st.calls)
  /\ UNCHANGED <<emitterVars, inputVars, physVars, tagVars, entityVars, systemVars, entities, systems, entityCounter,
                 isRunning, lastUpdateTime>>

\* ------------------------------------------------------------ InputSystem
\* InputSystem.on(eventName, listener)
InputOn(ev, l) ==
  /\ Len(inputListeners[ev]) < MaxListeners
  /\ inputListeners' = [inputListeners EXCEPT ![ev] = Append(@, l)]
  /\ Observe(Op("input.on", l, ev), None, <<>>)
  /\ UNCHANGED <<emitterVars, physVars, tagVars, entityVars, systemVars, worldVars>>

\* InputSystem.off(eventName, listener)
InputOff(ev, l) ==
  LET listeners == inputListeners[ev]
      index == IndexOf(listeners, l)
  IN
  /\ IF index # 0
     THEN inputListeners' = [inputListeners EXCEPT ![ev] =
            SubSeq(listeners, 1, index - 1) \o SubSeq(listeners, index + 1, Len(listeners))]
     ELSE UNCHANGED inputListeners
  /\ Observe(Op("input.off", l, ev), None, <<>>)
  /\ UNCHANGED <<emitterVars, physVars, tagVars, entityVars, systemVars, worldVars>>

\* InputSystem.emit(eventName, data)
InputEmit(ev, data) ==
  /\ Observe(Op("input.emit", data, ev), None, emit(inputListeners, ev, data))
  /\ UNCHANGED <<emitterVars, inputVars, physVars, tagVars, entityVars, systemVars, worldVars>>

\* ----------------------------------------------------------- EventEmitter
\* EventEmitter.on(eventName, listener, options) with options.once and
\* options.priority: a listener already in the list is refused with a
\* warning; otherwise it is pushed and the list is sorted by priority,
\* highest first, which keeps the order of equal priorities.
EmitterOn(l, once, priority) ==
  LET listeners == emitterEvents
      info == [listener |-> l, once |-> once, priority |-> priority]
      before == SelectSeq(listeners, LAMBDA i : i.priority >= priority)
      after == SelectSeq(listeners, LAMBDA i : i.priority < priority)
      exists == \E i \in 1..Len(listeners) : listeners[i].listener = l
  IN
  /\ Len(listeners) < MaxListeners
  /\ emitterEvents' = IF exists THEN listeners ELSE before \o <<info>> \o after
  /\ Observe(Op(IF once THEN "emitter.once" ELSE "emitter.on", l, priority), None,
             IF exists THEN <<Warn>> ELSE <<>>)
  /\ UNCHANGED <<inputVars, physVars, tagVars, entityVars, systemVars, worldVars>>

\* EventEmitter.off(eventName, listener) on a list of listeners
emitterOff(listeners, l) == SelectSeq(listeners, LAMBDA i : i.listener # l)

\* EventEmitter.off(eventName, listener)
EmitterOff(l) ==
  /\ emitterEvents' = emitterOff(emitterEvents, l)
  /\ Observe(Op("emitter.off", l, ""), None, <<>>)
  /\ UNCHANGED <<inputVars, physVars, tagVars, entityVars, systemVars, worldVars>>

\* The loop of EventEmitter.emit over the copy of the list, from the state
\* st = [calls, once, handled]: a listener that throws is logged and the loop
\* goes on; one that returns false ends the loop; after any other return the
\* event counts as handled and a once-listener is noted for removal.
RECURSIVE emitLoop(_, _, _)
emitLoop(list, data, st) ==
  IF list = <<>> THEN st
  ELSE
    LET info == Head(list)
        called == Append(st.calls, Call("listener", "tick", info.listener, data))
    IN  IF Throws(info.listener)
        THEN emitLoop(Tail(list), data,
                      [st EXCEPT !.calls = Append(called,
                                   Call("error", "tick", info.listener, 0))])
        ELSE IF ReturnsFalse(info.listener)
        THEN [st EXCEPT !.calls = called]
        ELSE emitLoop(Tail(list), data,
                      [calls |-> called, handled |-> TRUE,
                       once |-> IF info.once THEN Append(st.once, info.listener)
                                ELSE st.once])

\* The second loop of EventEmitter.emit: off() for each noted listener.
RECURSIVE removeOnce(_, _)
removeOnce(listeners, once) ==
  IF once = <<>> THEN listeners
  ELSE removeOnce(emitterOff(listeners, Head(once)), Tail(once))

\* EventEmitter.emit(eventName, data)
EmitterEmit(data) ==
  LET st == emitLoop(emitterEvents, data,
                     [calls |-> <<>>, once |-> <<>>, handled |-> FALSE])
  IN
  /\ emitterEvents' = removeOnce(emitterEvents, st.once)
  /\ Observe(Op("emitter.emit", data, ""), st.handled, st.calls)
  /\ UNCHANGED <<inputVars, physVars, tagVars, entityVars, systemVars, worldVars>>

\* ---------------------------------------------------------- Physics actions
\* The gravity each body's Physics.update accumulates in this pass, in the
\* order of the bodies.
RECURSIVE GravityCalls(_)
GravityCalls(b) ==
  IF b > NumBodies THEN <<>>
  ELSE (IF body[b].isStatic \/ body[b].isSleeping \/ body[b].isKinematic THEN <<>>
        ELSE <<Call("gravity", "", b, GravityApplied(WithSystemGravity(body[b])))>>)
       \o GravityCalls(b + 1)

\* PhysicsSystem.update(deltaTime) of an enabled system with collisionEnabled:
\* integration, collision detection, world bounds, clearCollisions.  An
\* exception in the detection ends the update there.
PhysicsUpdate(deltaTime) ==
  \E st \in {detectCollisions(
               [body |-> [b \in Bodies |-> updateEntityPhysics(body[b], deltaTime)],
                pairs |-> <<>>, calls |-> <<>>, thrown |-> FALSE], 1)} :
  /\ frames < MaxFrames
  /\ frames' = frames + 1
  /\ body' = IF st.thrown THEN st.body
             ELSE IF physBounds.set
             THEN [b \in Bodies |->
                     clearCollisions(checkWorldBounds(st.body[b], physBounds))]
             ELSE [b \in Bodies |-> clearCollisions(st.body[b])]
  /\ collisionPairs' = st.pairs
  /\ Observe(Op("physics.update", 0, deltaTime), None, GravityCalls(1) \o st.calls)
  /\ UNCHANGED <<emitterVars, inputVars, tagVars, entityVars, systemVars, worldVars,
                 physGravity, physBounds>>

\* Physics.update(deltaTime, transform), called on one body
PhysicsComponentUpdate(b, deltaTime) ==
  /\ frames < MaxFrames
  /\ frames' = frames + 1
  /\ body' = [body EXCEPT ![b] = PhysicsStep(@, deltaTime)]
  /\ Observe(Op("physics.step", b, deltaTime), None, <<>>)
  /\ UNCHANGED <<emitterVars, inputVars, tagVars, entityVars, systemVars, worldVars,
                 physGravity, physBounds, collisionPairs>>

\* Physics.setGravity(gx, gy) on one body
SetBodyGravity(b, gx, gy) ==
  /\ body' = [body EXCEPT ![b].gravityX = gx, ![b].gravityY = gy]
  /\ Observe(Op("physics.setGravity", b, <<gx, gy>>), b, <<>>)
  /\ UNCHANGED <<emitterVars, inputVars, tagVars, entityVars, systemVars, worldVars,
                 physGravity, physBounds, collisionPairs, frames>>

\* PhysicsSystem.setWorldBounds(bounds)
SetWorldBounds(bounds) ==
  /\ physBounds' = bounds
  /\ Observe(Op("setWorldBounds", 0, ""), None, <<>>)
  /\ UNCHANGED <<emitterVars, inputVars, tagVars, entityVars, systemVars, worldVars,
                 body, physGravity, collisionPairs, frames>>

\* Physics.checkCollision(other, transform, otherTransform) on body a with
\* body b
CheckCollision(a, b) ==
  /\ Observe(Op("checkCollision", a, b), checkCollision(body[a], body[b]), <<>>)
  /\ UNCHANGED <<emitterVars, inputVars, tagVars, entityVars, systemVars, worldVars, physVars>>

\* PhysicsSystem.checkCollision(entityA, entityB), called on one pair
PairCollision(a, b) ==
  \E st \in {CheckPair([body |-> body, pairs |-> collisionPairs, calls |-> <<>>,
                        thrown |-> FALSE], a, b)} :
  /\ frames < MaxFrames
  /\ frames' = frames + 1
  /\ body' = st.body
  /\ collisionPairs' = st.pairs
  /\ Observe(Op("pairCollision", a, b), None, st.calls)
  /\ UNCHANGED <<emitterVars, inputVars, tagVars, entityVars, systemVars, worldVars,
                 physGravity, physBounds>>

\* Physics.handleCollision(collision, other) on body b; a null collision is
\* NoCollision.
HandleCollision(b, collision, other) ==
  /\ frames < MaxFrames
  /\ frames' = frames + 1
  /\ body' = IF collision.hit
             THEN [body EXCEPT ![b] = handleCollision(@, collision, other)]
             ELSE body
  /\ Observe(Op("handleCollision", b, [other |-> other, collision |-> collision]),
             None,
             IF collision.hit /\ ResponseThrows(body[b])
             THEN <<Call("throw", "ReferenceError", b, 0)>> ELSE <<>>)
  /\ UNCHANGED <<emitterVars, inputVars, tagVars, entityVars, systemVars, worldVars,
                 physGravity, physBounds, collisionPairs>>

\* Physics.addForce(fx, fy, duration) on body b
AddForce(b, fx, fy, duration) ==
  /\ Len(body[b].forces) < MaxForces
  /\ body' = [body EXCEPT ![b].forces =
                Append(@, [x |-> fx, y |-> fy, duration |-> duration,
                           elapsed |-> Num(0)])]
  /\ Observe(Op("addForce", b, duration), b, <<>>)
  /\ UNCHANGED <<emitterVars, inputVars, tagVars, entityVars, systemVars, worldVars,
                 physGravity, physBounds, collisionPairs, frames>>

\* Fault: addImpulse waking the body it is applied to.
AddImpulseWaking(b, ix, iy) ==
  /\ Len(body[b].impulses) < MaxForces
  /\ body' = [body EXCEPT ![b].impulses = Append(@, [x |-> ix, y |-> iy]),
                          ![b].isSleeping = FALSE]
  /\ Observe(Op("addImpulse", b, <<ix, iy>>), b, <<>>)
  /\ UNCHANGED <<emitterVars, inputVars, tagVars, entityVars, systemVars, worldVars,
                 physGravity, physBounds, collisionPairs, frames>>

\* Physics.addImpulse(ix, iy) on body b
AddImpulse(b, ix, iy) ==
  /\ Len(body[b].impulses) < MaxForces
  /\ body' = [body EXCEPT ![b].impulses = Append(@, [x |-> ix, y |-> iy])]
  /\ Observe(Op("addImpulse", b, <<ix, iy>>), b, <<>>)
  /\ UNCHANGED <<emitterVars, inputVars, tagVars, entityVars, systemVars, worldVars,
                 physGravity, physBounds, collisionPairs, frames>>

\* Physics.setVelocity(vx, vy) on body b
SetVelocity(b, vx, vy) ==
  /\ body' = [body EXCEPT ![b].velocityX = vx, ![b].velocityY = vy]
  /\ Observe(Op("setVelocity", b, <<vx, vy>>), b, <<>>)
  /\ UNCHANGED <<emitterVars, inputVars, tagVars, entityVars, systemVars, worldVars,
                 physGravity, physBounds, collisionPairs, frames>>

\* --------------------------------------------------------- specifications
\* Inputs.  The entity objects with distinct ids are the ones whose components
\* and enabled flag are changed; the last entity object is a second
\* `new Entity(id)` with the first one's id.  Each of them is given its own
\* component instances in the world specifications.
NamedEntities == 1..(NumEntities - 1)
OwnComps(e) == {c \in Comps : c[2] = e}
WorldSystems == {1, 2, NumSystems}
SchedSystems == 1..(NumSystems - 1)
SetPriorities == {10, 50}
HookSystems == {1, 3}
LifeEvents == {"worldStopped", "worldCleared", "worldDestroyed"}
Subscribed == Len(eventListeners["worldStopped"]) + Len(eventListeners["worldCleared"])
                + Len(eventListeners["worldDestroyed"])

\* The registry: entities, components, systems and the entity hooks.
Next ==
  \/ \E e \in NamedEntities : \E c \in OwnComps(e) : AddComponent(e, c)
  \/ \E e \in NamedEntities, T \in Types : RemoveComponent(e, T)
  \/ \E e \in NamedEntities : EntityEnable(e)
  \/ \E e \in NamedEntities : EntityDisable(e)
  \/ \E s \in WorldSystems : GetMatchingEntities(s)
  \/ \E e \in EntityObjs : AddEntity(e)
  \/ \E e \in EntityObjs : RemoveEntity(e)
  \/ \E s \in WorldSystems : AddSystem(s)
  \/ \E s \in WorldSystems : RemoveSystem(s)
  \/ Clear

Spec == Init /\ [][Next]_vars

\* The scheduler: systems, priorities, enabled flags and the update pass.
\* Three priority values (the default 0 and two set ones) over three
\* systems cover all-distinct, partly equal and all-equal priorities.  The
\* order of the pass does not depend on the clock, so the clock reads one
\* value here; the stopped world is the one that was never started.
NextSched ==
  \/ \E s \in SchedSystems : AddSystem(s)
  \/ \E s \in SchedSystems : RemoveSystem(s)
  \/ \E s \in SchedSystems : SystemEnable(s)
  \/ \E s \in SchedSystems : SystemDisable(s)
  \/ \E s \in SchedSystems, p \in SetPriorities : SetPriority(s, p)
  \/ Start(MaxTime)
  \/ Update(MaxTime)

SpecSched == Init /\ [][NextSched]_vars

\* Matching: entities, their components and enabled flags, and the queries.
NextMatch ==
  \/ \E e \in NamedEntities : \E c \in OwnComps(e) : AddComponent(e, c)
  \/ \E e \in NamedEntities, T \in Types : RemoveComponent(e, T)
  \/ \E e \in NamedEntities : EntityEnable(e)
  \/ \E e \in NamedEntities : EntityDisable(e)
  \/ \E e \in NamedEntities : AddEntity(e)
  \/ \E e \in NamedEntities : RemoveEntity(e)
  \/ \E s \in WorldSystems : GetMatchingEntities(s)

SpecMatch == Init /\ [][NextMatch]_vars

\* Registration: entity objects and system objects, some with the same key.
NextRegister ==
  \/ \E e \in EntityObjs : AddEntity(e)
  \/ \E e \in EntityObjs : RemoveEntity(e)
  \/ \E s \in WorldSystems : AddSystem(s)
  \/ \E s \in WorldSystems : RemoveSystem(s)
  \/ Clear

SpecRegister == Init /\ [][NextRegister]_vars

\* Entities made by the world, some under an id that is in use, and removed
\* through the objects the world returned.
NextCreate ==
  \/ \E e \in EntityObjs : CreateEntity(e)
  \/ \E e \in EntityObjs : RemoveEntity(e)
  \/ \E s \in WorldSystems : AddSystem(s)
  \/ \E s \in WorldSystems : RemoveSystem(s)

SpecCreate == Init /\ [][NextCreate]_vars

\* Removal of entities that hold components and tags, with a system
\* requiring A registered or not.
RemoveSystems == {3}

NextRemove ==
  \/ \E e \in NamedEntities : \E c \in OwnComps(e) : AddComponent(e, c)
  \/ \E e \in NamedEntities, tag \in Tags : AddTag(e, tag)
  \/ \E e \in NamedEntities, tag \in Tags : RemoveTag(e, tag)
  \/ \E e \in EntityObjs : AddEntity(e)
  \/ \E e \in EntityObjs : RemoveEntity(e)
  \/ \E s \in RemoveSystems : AddSystem(s)

SpecRemove == Init /\ [][NextRemove]_vars

\* The physics pass over bodies built static, kinematic or dynamic, spaced so
\* that neighbours overlap, with and without world bounds.
Kinds == {"static", "kinematic", "dynamic"}
StartSpeeds == {0, -20}
Radius == 10
Spacing == 15
BodyData(b, kind, speed) ==
  [NoData EXCEPT !.y = Num(Spacing * (b - 1)), !.velocityY = Num(speed),
                 !.collisionShape = "circle", !.collisionRadius = Num(Radius),
                 !.isStatic = (kind = "static"),
                 !.isKinematic = (kind = "kinematic")]
InitPhysics ==
  /\ InitWorld
  /\ \E kind \in [Bodies -> Kinds], speed \in [Bodies -> StartSpeeds] :
       body = [b \in Bodies |-> NewBody(BodyData(b, kind[b], speed[b]))]

DeltaTimes == {Num(1), Frac(1, 2)}
OwnGravity == {<<Num(0), Num(100)>>}
BoundsArgs == {NoBounds, Bounds(Num(-50), Num(20), Num(100), Num(100))}

NextPhysics ==
  \/ \E deltaTime \in DeltaTimes : PhysicsUpdate(deltaTime)
  \/ \E b \in Bodies, g \in OwnGravity : SetBodyGravity(b, g[1], g[2])
  \/ \E bounds \in BoundsArgs : SetWorldBounds(bounds)

SpecPhysics == InitPhysics /\ [][NextPhysics]_vars

\* Physics.checkCollision on bodies with the default group and mask: the first
\* body at the origin, the others at an offset whose length is a whole number
\* (coincident centres, touching, overlapping and apart, along the axes and
\* diagonally), circles of radius 10 and 15 and default rectangles.
Offsets ==
  {<<0, 0>>, <<20, 0>>, <<25, 0>>, <<30, 0>>, <<0, -20>>, <<0, 25>>,
   <<12, 16>>, <<15, 20>>, <<-7, 24>>, <<18, 24>>, <<3, 4>>}
Radii == {<<10, 15>>, <<15, 10>>}
Shapes == {"circle", ""}
ShapeData(shape, radius, offset) ==
  [NoData EXCEPT !.x = Num(offset[1]), !.y = Num(offset[2]),
                 !.collisionShape = shape, !.collisionRadius = Num(radius)]
InitCollide ==
  /\ InitWorld
  /\ \E offset \in Offsets, radii \in Radii, shape \in [1..2 -> Shapes] :
       body = [b \in Bodies |->
                 IF b = 1 THEN NewBody(ShapeData(shape[1], radii[1], <<0, 0>>))
                 ELSE NewBody(ShapeData(shape[2], radii[2], offset))]

NextCollide ==
  \E a \in Bodies : \E b \in Bodies \ {a} : CheckCollision(a, b)

SpecCollide == InitCollide /\ [][NextCollide]_vars

\* Physics.update called on the first body alone, step after step with
\* dt = 1/60.  The body starts at rest with (0, 980) as its acceleration or as
\* its gravity; it is static, kinematic or dynamic, and friction and
\* airResistance are passed as 0 or as 1/2.
Falling == {<<980, 0>>, <<0, 980>>}
Dampings == {Num(0), Frac(1, 2)}
Heights == {0, 100, -100}
FallData(kind, fall, friction, airResistance, height) ==
  [NoData EXCEPT !.y = Num(height),
                 !.accelerationY = Num(fall[1]), !.gravityY = Num(fall[2]),
                 !.friction = friction, !.airResistance = airResistance,
                 !.isStatic = (kind = "static"),
                 !.isKinematic = (kind = "kinematic")]
InitIntegrate ==
  /\ InitWorld
  /\ \E kind \in Kinds, fall \in Falling, friction \in Dampings,
        airResistance \in Dampings, height \in Heights :
       body = [b \in Bodies |->
                 IF b = 1
                 THEN NewBody(FallData(kind, fall, friction, airResistance, height))
                 ELSE NewBody(NoData)]
StepTime == Frac(1, 60)

NextIntegrate == PhysicsComponentUpdate(1, StepTime)

SpecIntegrate == InitIntegrate /\ [][NextIntegrate]_vars

\* A pair of neighbours whose bounding boxes overlap: each of them static,
\* kinematic or dynamic; a circle, a rectangle or a polygon; with the default
\* group and mask, with collisions disabled, with another mask or in another
\* group.  The first moves down and the second up.
ShapeKinds == {"circle", "rectangle", "polygon"}
Settings == {"plain", "disabled", "mask", "group"}
Corner == <<(<<0 - 2 * Radius, 0 - 2 * Radius>>), (<<0, 0 - 2 * Radius>>), (<<0, 0>>),
            (<<0 - 2 * Radius, 0>>)>>
PairData(b, kind, shape, setting) ==
  [BodyData(b, kind, IF b = 1 THEN 20 ELSE -20) EXCEPT
     !.collisionShape = shape,
     !.collisionWidth = Num(2 * Radius), !.collisionHeight = Num(2 * Radius),
     !.collisionPolygon = Corner,
     !.collisionEnabled = (setting # "disabled"),
     !.collisionMask = IF setting = "mask" THEN {"other"} ELSE NoMask,
     !.collisionGroup = IF setting = "group" THEN "other" ELSE ""]
InitPairs ==
  /\ InitWorld
  /\ \E kind \in [1..2 -> Kinds], shape \in [1..2 -> ShapeKinds],
        setting \in [1..2 -> Settings] :
       body = [b \in Bodies |->
                 IF b <= 2 THEN NewBody(PairData(b, kind[b], shape[b], setting[b]))
                 ELSE NewBody(NoData)]

NextPairs ==
  \/ \E a \in 1..2 : \E b \in 1..2 \ {a} : PairCollision(a, b)
  \/ PhysicsUpdate(Frac(1, 2))

SpecPairs == InitPairs /\ [][NextPairs]_vars

\* The world bounds and one body of any kind and shape that starts inside
\* them or across one or two of them, moving along one axis (a dynamic body,
\* which gravity pulls along y, moves along y).
Positions ==
  {<<0, 70>>, <<-45, 70>>, <<45, 70>>, <<0, 25>>, <<0, 115>>, <<45, 115>>}
Velocities == {<<0, 20>>, <<0, -20>>, <<20, 0>>, <<-20, 0>>}
BoundsData(kind, shape, position, velocity) ==
  [NoData EXCEPT !.x = Num(position[1]), !.y = Num(position[2]),
                 !.velocityX = Num(velocity[1]), !.velocityY = Num(velocity[2]),
                 !.collisionShape = shape, !.collisionRadius = Num(Radius),
                 !.collisionWidth = Num(2 * Radius),
                 !.collisionHeight = Num(2 * Radius),
                 !.collisionPolygon = Corner,
                 !.isStatic = (kind = "static"),
                 !.isKinematic = (kind = "kinematic")]
InitBounds ==
  /\ InitWorld
  /\ \E kind \in Kinds, shape \in ShapeKinds, position \in Positions,
        velocity \in Velocities :
       /\ kind = "dynamic" => velocity[1] = 0
       /\ body = [b \in Bodies |->
                    IF b = 1
                    THEN NewBody(BoundsData(kind, shape, position, velocity))
                    ELSE NewBody(NoData)]

NextBounds ==
  \/ \E deltaTime \in DeltaTimes : PhysicsUpdate(deltaTime)
  \/ \E bounds \in BoundsArgs : SetWorldBounds(bounds)

SpecBounds == InitBounds /\ [][NextBounds]_vars

\* A circle body of any kind, built asleep or awake, at rest or turning,
\* overlaps a static circle and lies across the top of the
\* bounds once they are set; forces, impulses and velocities are given to it
\* between the updates.
Spins == {Num(0), Num(1)}
SleepData(kind, sleeping, spin) ==
  [BodyData(2, kind, 0) EXCEPT !.isSleeping = sleeping,
                                   !.angularVelocity = spin]
InitSleep ==
  /\ InitWorld
  /\ \E kind \in Kinds, sleeping \in BOOLEAN, spin \in Spins :
       body = [b \in Bodies |->
                 IF b = 1 THEN NewBody(SleepData(kind, sleeping, spin))
                 ELSE NewBody(BodyData(3, "static", 0))]
Push == Num(60)

NextSleep ==
  \/ PhysicsUpdate(Frac(1, 2))
  \/ PhysicsComponentUpdate(1, Frac(1, 2))
  \/ AddForce(1, Num(0), Push, Num(0))
  \/ AddImpulse(1, Num(0), Push)
  \/ SetVelocity(1, Num(0), Push)
  \/ \E bounds \in BoundsArgs : SetWorldBounds(bounds)

SpecSleep == InitSleep /\ [][NextSleep]_vars

\* Continuous (duration 0) and timed forces queued on the first body between
\* its integration steps.
Durations == {Num(0), Num(1)}
NextForces ==
  \/ \E duration \in Durations : AddForce(1, Num(0), Push, duration)
  \/ \E deltaTime \in DeltaTimes : PhysicsComponentUpdate(1, deltaTime)

SpecForces == InitPhysics /\ [][NextForces]_vars

\* Physics.handleCollision called on a body with a contact or with null.
Contacts ==
  {NoCollision,
   [hit |-> TRUE, normalX |-> Num(0), normalY |-> Num(1), depth |-> Num(5)],
   [hit |-> TRUE, normalX |-> Frac(3, 5), normalY |-> Frac(-4, 5), depth |-> Num(5)]}

NextResponse ==
  \E b \in Bodies : \E other \in Bodies \ {b} : \E collision \in Contacts :
    HandleCollision(b, collision, other)

SpecResponse == InitPhysics /\ [][NextResponse]_vars

\* One entity's component map, with every instance of every class.
NextEntity ==
  \/ \E c \in Comps : AddComponent(1, c)
  \/ \E T \in Types : RemoveComponent(1, T)
  \/ \E T \in Types : GetComponent(1, T)
  \/ \E T \in Types : HasComponent(1, T)

SpecEntity == Init /\ [][NextEntity]_vars

\* Two entities sharing the instances of one class: any instance is added to
\* either entity, and the first entity is removed from the world
\* (Entity.destroy).
SharedComps == {c \in Comps : TypeOf(c) = "A"}
NextShared ==
  \/ \E e \in NamedEntities, c \in SharedComps : AddComponent(e, c)
  \/ \E e \in NamedEntities : RemoveComponent(e, "A")
  \/ AddEntity(1)
  \/ RemoveEntity(1)

SpecShared == Init /\ [][NextShared]_vars

\* One entity's component accessors, with null among the arguments.
TypeArgs == Types \cup {NullType}

NextNull ==
  \/ \E c \in Comps : AddComponent(1, c)
  \/ \E T \in TypeArgs : RemoveComponent(1, T)
  \/ \E T \in TypeArgs : GetComponent(1, T)
  \/ \E T \in TypeArgs : HasComponent(1, T)

SpecNull == Init /\ [][NextNull]_vars

\* System registration against a populated world.
NextSystem ==
  \/ \E e \in NamedEntities : AddComponent(e, <<"A", e>>)
  \/ \E e \in NamedEntities : RemoveComponent(e, "A")
  \/ \E e \in NamedEntities : EntityEnable(e)
  \/ \E e \in NamedEntities : EntityDisable(e)
  \/ \E e \in NamedEntities : AddEntity(e)
  \/ \E e \in NamedEntities : RemoveEntity(e)
  \/ \E s \in HookSystems : AddSystem(s)
  \/ \E s \in HookSystems : RemoveSystem(s)
  \/ \E s \in HookSystems : SystemEnable(s)
  \/ \E s \in HookSystems : SystemDisable(s)
  \/ Clear

SpecSystem == Init /\ [][NextSystem]_vars

\* The world's lifecycle and its listeners, with one entity and one system.
NextLife ==
  \/ \E ev \in LifeEvents, l \in ListenerObjs : Subscribed < MaxListeners /\ On(ev, l)
  \/ \E ev \in LifeEvents, l \in ListenerObjs : Off(ev, l)
  \/ AddEntity(1)
  \/ AddSystem(1)
  \/ \E now \in Times : Start(now)
  \/ \E currentTime \in Times : Update(currentTime)
  \/ Stop
  \/ Clear
  \/ Destroy

SpecLife == Init /\ [][NextLife]_vars

\* The update pass with systems that remove systems, themselves or others,
\* from inside their update.
NextTick ==
  \/ \E s \in SchedSystems : AddSystem(s)
  \/ \E s \in SchedSystems : RemoveSystem(s)
  \/ \E s \in SchedSystems, p \in SetPriorities : SetPriority(s, p)
  \/ Start(MaxTime)
  \/ Update(MaxTime)
  \/ \E remover \in SchedSystems, victim \in SchedSystems :
       UpdateRemoving(MaxTime, remover, victim)

SpecTick == Init /\ [][NextTick]_vars

\* Event delivery by the world and by the input system, with a listener that
\* throws among the subscribers.
AllListeners == ListenerObjs \cup FaultyListeners
EmitEvents == {"worldStarted"}
EmitInputEvents == {"keydown"}
EventData == {0, 1}

NextEmit ==
  \/ \E ev \in EmitEvents, l \in AllListeners : On(ev, l)
  \/ \E ev \in EmitEvents, l \in AllListeners : Off(ev, l)
  \/ \E ev \in EmitEvents, data \in EventData : Emit(ev, data)
  \/ \E ev \in EmitInputEvents, l \in AllListeners : InputOn(ev, l)
  \/ \E ev \in EmitInputEvents, l \in AllListeners : InputOff(ev, l)
  \/ \E ev \in EmitInputEvents, data \in EventData : InputEmit(ev, data)
  \/ \E now \in Times : Start(now)
  \/ Stop

SpecEmit == Init /\ [][NextEmit]_vars

\* World.emit with listeners that unsubscribe listeners, themselves or
\* others, while the event is delivered.
NextReenter ==
  \/ \E ev \in EmitEvents, l \in AllListeners : On(ev, l)
  \/ \E ev \in EmitEvents, l \in AllListeners : Off(ev, l)
  \/ \E ev \in EmitEvents, data \in EventData : Emit(ev, data)
  \/ \E ev \in EmitEvents, data \in EventData, remover \in AllListeners,
        victim \in AllListeners : EmitRemoving(ev, data, remover, victim)

SpecReenter == Init /\ [][NextReenter]_vars

\* The entity hooks of two systems, one without requirements and one that
\* requires a component, for one entity, with the history of their calls kept.
InitHooks ==
  /\ InitObjects
  /\ hooked = {}
  /\ body = [b \in Bodies |-> NewBody(NoData)]

HookEntities == {1}
NextHooks ==
  \/ \E s \in HookSystems : AddSystem(s)
  \/ \E e \in HookEntities : AddEntity(e)
  \/ \E e \in HookEntities : RemoveEntity(e)
  \/ \E e \in HookEntities : \E c \in OwnComps(e) : AddComponent(e, c)
  \/ \E e \in HookEntities, T \in Types : RemoveComponent(e, T)
  \/ \E e \in HookEntities : EntityEnable(e)
  \/ \E e \in HookEntities : EntityDisable(e)

SpecHooks == InitHooks /\ [][NextHooks]_vars

\* The ways out of the registry: one entity and two systems are registered,
\* then removed one by one, by clear or by destroy.
NextLeave ==
  \/ \E s \in HookSystems : AddSystem(s)
  \/ \E s \in HookSystems : RemoveSystem(s)
  \/ \E e \in HookEntities : AddEntity(e)
  \/ \E e \in HookEntities : RemoveEntity(e)
  \/ \E e \in HookEntities : \E c \in OwnComps(e) : AddComponent(e, c)
  \/ Clear
  \/ Destroy

SpecLeave == Init /\ [][NextLeave]_vars

\* One EventEmitter with plain, throwing and false-returning listeners,
\* subscribed with on or once at two priorities.
EmitterListeners == AllListeners \cup VetoListeners
Priorities == {0, 1}
NextEmitter ==
  \/ \E l \in EmitterListeners, once \in BOOLEAN, priority \in Priorities :
       EmitterOn(l, once, priority)
  \/ \E l \in EmitterListeners : EmitterOff(l)
  \/ \E data \in EventData : EmitterEmit(data)

SpecEmitter == Init /\ [][NextEmitter]_vars

\* The update pass with a system that inherited the abstract update.
AbstractSystems == {1, BaseSystem}

NextAbstract ==
  \/ \E s \in AbstractSystems : AddSystem(s)
  \/ \E s \in AbstractSystems : RemoveSystem(s)
  \/ \E s \in AbstractSystems : SystemEnable(s)
  \/ \E s \in AbstractSystems : SystemDisable(s)
  \/ \E s \in AbstractSystems, p \in SetPriorities : SetPriority(s, p)
  \/ \E now \in Times : Start(now)
  \/ \E currentTime \in Times : Update(currentTime)
  \/ Stop

SpecAbstract == Init /\ [][NextAbstract]_vars

\* ----------------------------------------------------------------- claims
\* What the claims speak of, written without the model's operators.
CallsOfKind(seq, k) == SelectSeq(seq, LAMBDA c : c.k = k)
HookCount(seq, k, s, e) ==
  Cardinality({i \in 1..Len(seq) : seq[i].k = k /\ seq[i].a = s /\ seq[i].b = e})
ListenerCount(seq, ev, l) ==
  Cardinality({i \in 1..Len(seq) : seq[i].k = "listener" /\ seq[i].ev = ev /\ seq[i].a = l})
Subscriptions(list, l) == Cardinality({i \in 1..Len(list) : list[i] = l})
Has(e, T) == entComponents[e][T] # NoComp
ShouldMatch(s, e) == entEnabled[e] /\ \A T \in sysRequired[s] : Has(e, T)
Position(seq, x) == CHOOSE i \in 1..Len(seq) : seq[i] = x
RegisteredWithId(id) == {e \in Range(entities) : EntityId(e) = id}
RegisteredWithName(n) == {s \in Range(systems) : getName(s) = n}
ListenersInvoked(seq) ==
  LET l == CallsOfKind(seq, "listener") IN [i \in 1..Len(l) |-> l[i].a]

C3_LatestComponent ==
  [][/\ lastOp'.op = "addComponent" =>
          entComponents'[lastOp'.a][TypeOf(lastOp'.x)] = lastOp'.x
     /\ lastOp'.op = "removeComponent" =>
          entComponents'[lastOp'.a][lastOp'.x] = NoComp
     /\ lastOp'.op = "getComponent" => ret' = entComponents[lastOp'.a][lastOp'.x]
     /\ lastOp'.op = "hasComponent" =>
          ret' = (entComponents[lastOp'.a][lastOp'.x] # NoComp)
     /\ \A e \in EntityObjs, T \in Types :
          entComponents'[e][T] # entComponents[e][T] =>
            /\ lastOp'.a = e
            /\ \/ lastOp'.op = "addComponent" /\ TypeOf(lastOp'.x) = T
               \/ lastOp'.op = "removeComponent" /\ lastOp'.x = T]_vars

\* A second instance of a class has just replaced the first, whose
\* back-reference still names the entity.
C3_Witness ==
  /\ lastOp.op = "addComponent"
  /\ \E c \in Comps :
       /\ c # lastOp.x /\ TypeOf(c) = TypeOf(lastOp.x)
       /\ compEntity[c] = lastOp.a
  /\ entComponents[lastOp.a][TypeOf(lastOp.x)] = lastOp.x

\* C4: matches(e) holds iff e is enabled and has a component of every required
\* type, and getMatchingEntities returns exactly the registered entities for
\* which that holds when it is called, each once.
C4_Matching ==
  /\ \A s \in SystemObjs, e \in EntityObjs : matches(s, e) <=> ShouldMatch(s, e)
  /\ lastOp.op = "getMatchingEntities" =>
       /\ Range(ret) = {e \in Range(entities) : ShouldMatch(lastOp.a, e)}
       /\ Len(ret) = Cardinality(Range(ret))

\* A query of a system requiring {A, B} with two entities registered: one is
\* returned, the other is enabled and has A but not B.
C4_Witness ==
  /\ lastOp.op = "getMatchingEntities"
  /\ sysRequired[lastOp.a] = {"A", "B"}
  /\ Len(entities) = 2 /\ Len(ret) = 1
  /\ \E e \in Range(entities) :
       e \notin Range(ret) /\ entEnabled[e] /\ Has(e, "A") /\ ~Has(e, "B")

\* C5: when removeComponent takes a required component from a registered
\* entity that matches a registered system, that system's onEntityRemoved is
\* called exactly once for the entity.
C5_RemoveComponentNotifies ==
  [][\A s \in Range(systems), e \in Range(entities) :
       (/\ lastOp'.op = "removeComponent" /\ lastOp'.a = e
        /\ ShouldMatch(s, e)
        /\ lastOp'.x \in sysRequired[s])
       => HookCount(calls', "onEntityRemoved", s, e) = 1]_vars

\* C6: addEntity with a registered id and addSystem with a registered name
\* return false, do not throw and change nothing; no init, no onEntityAdded,
\* no event.
C6_DuplicateRejected ==
  [][(\/ lastOp'.op = "addEntity" /\ RegisteredWithId(EntityId(lastOp'.a)) # {}
      \/ lastOp'.op = "addSystem" /\ RegisteredWithName(getName(lastOp'.a)) # {})
     => /\ ret' = FALSE
        /\ ~raised'
        /\ UNCHANGED <<entityVars, tagVars, systemVars, worldVars>>
        /\ \A i \in 1..Len(calls') :
             calls'[i].k \notin {"init", "onEntityAdded", "emit", "listener"}]_vars

\* addEntity of an unregistered entity object whose id is taken, while a
\* registered system matches that object.
C6_Witness ==
  /\ lastOp.op = "addEntity" /\ ret = FALSE
  /\ lastOp.a \notin Range(entities)
  /\ \E s \in Range(systems) : ShouldMatch(s, lastOp.a)

\* C7: a successful addSystem(S) runs S.init once, then S.onEntityAdded once
\* for each registered entity matching S and for no other, then emits
\* systemAdded; enable and disable run no init.
C7_AddSystemOrder ==
  /\ (lastOp.op = "addSystem" /\ ret = TRUE) =>
       LET s == lastOp.a
           hit == {e \in Range(entities) : ShouldMatch(s, e)}
           n == Cardinality(hit)
       IN  /\ Len(calls) >= n + 2
           /\ calls[1] = Call("init", "", s, 0)
           /\ \A i \in 2..(n + 1) : calls[i].k = "onEntityAdded" /\ calls[i].a = s
           /\ {calls[i].b : i \in 2..(n + 1)} = hit
           /\ calls[n + 2] = Call("emit", "systemAdded", s, 0)
           /\ \A i \in (n + 3)..Len(calls) : calls[i].k = "listener"
  /\ lastOp.op \in {"system.enable", "system.disable"} =>
       \A i \in 1..Len(calls) : calls[i].k # "init"

\* A system is added to a world of two entities of which exactly one matches.
C7_Witness ==
  /\ lastOp.op = "addSystem" /\ ret = TRUE
  /\ Len(entities) = 2
  /\ Len(CallsOfKind(calls, "onEntityAdded")) = 1
  /\ \E e \in Range(entities) : entEnabled[e] /\ ~ShouldMatch(lastOp.a, e)

\* C8: a successful addEntity(e) calls onEntityAdded(e) once on each registered
\* system that matches e and on no other; a successful removeEntity(e) calls
\* onEntityRemoved(e) once on each registered system that matches e when it is
\* called and on no other.
C8_EntityHooks ==
  [][/\ (lastOp'.op = "addEntity" /\ ret' = TRUE) =>
          \A s \in SystemObjs :
            HookCount(calls', "onEntityAdded", s, lastOp'.a)
              = IF s \in Range(systems) /\ ShouldMatch(s, lastOp'.a) THEN 1 ELSE 0
     /\ (lastOp'.op = "removeEntity" /\ ret' = TRUE) =>
          \A e \in RegisteredWithId(EntityId(lastOp'.a)), s \in SystemObjs :
            /\ HookCount(calls', "onEntityRemoved", s, e)
                 = IF s \in Range(systems) /\ ShouldMatch(s, e) THEN 1 ELSE 0
            /\ Len(CallsOfKind(calls', "onEntityRemoved"))
                 = Cardinality({x \in Range(systems) : ShouldMatch(x, e)})]_vars

\* An entity is removed while two systems are registered, one that matches
\* it and one that does not.
C8_Witness ==
  /\ lastOp.op = "removeEntity" /\ ret = TRUE
  /\ Len(systems) = 2
  /\ Len(CallsOfKind(calls, "onEntityRemoved")) = 1

\* C9: destroy() leaves no entity and no system registered and isRunning
\* false, and does not throw; a destroy() that follows a destroy() changes
\* nothing.
C9_DestroyIdempotent ==
  [][lastOp'.op = "destroy" =>
       /\ entities' = <<>> /\ systems' = <<>> /\ ~isRunning' /\ ~raised'
       /\ lastOp.op = "destroy" =>
            UNCHANGED <<entityVars, tagVars, systemVars, worldVars>>]_vars

\* destroy() of a running world: it stopped the world and destroyed a system.
C9_Witness ==
  /\ lastOp.op = "destroy"
  /\ \E i \in 1..Len(calls) : calls[i].k = "emit" /\ calls[i].ev = "worldStopped"
  /\ \E i \in 1..Len(calls) : calls[i].k = "destroy"
  /\ entities = <<>> /\ systems = <<>>

\* C10: destroy() invokes every listener subscribed to worldDestroyed, once
\* per subscription.
C10_DestroyedDelivered ==
  [][lastOp'.op = "destroy" =>
       \A l \in ListenerObjs :
         ListenerCount(calls', "worldDestroyed", l)
           = Subscriptions(eventListeners["worldDestroyed"], l)]_vars

\* C11: an exception thrown by a listener does not leave emit, and the
\* listeners of the event are all invoked, in subscription order, those after
\* the throwing one included (World.emit and InputSystem.emit).
C11_ListenerFaultContained ==
  /\ lastOp.op \in {"emit", "input.emit", "start", "stop"} => ~raised
  /\ lastOp.op = "emit" =>
       ListenersInvoked(calls) = eventListeners[lastOp.x]
  /\ lastOp.op = "input.emit" =>
       ListenersInvoked(calls) = inputListeners[lastOp.x]
  /\ (lastOp.op = "start" /\ calls # <<Warn>>) =>
       ListenersInvoked(calls) = eventListeners["worldStarted"]

\* An emit whose first listener throws and whose second does not, by the
\* world and by the input system.
C11_Witness ==
  /\ lastOp.op \in {"emit", "input.emit"}
  /\ LET l == ListenersInvoked(calls) IN
       Len(l) = 2 /\ Throws(l[1]) /\ ~Throws(l[2])
  /\ \E ev \in EmitEvents : Len(eventListeners[ev]) = 2
  /\ \E ev \in EmitInputEvents : Len(inputListeners[ev]) = 2

\* C12: World.update on a running world throws exactly when an enabled
\* registered system did not override update; the error leaves World.update
\* (no worldUpdated follows, nothing is logged as a listener fault), and a
\* disabled such system is not called.
C12_AbstractUpdateFails ==
  (lastOp.op = "update" /\ isRunning) =>
    LET abstract == {s \in Range(systems) : ~OverridesUpdate(s)} IN
    /\ raised <=> \E s \in abstract : sysEnabled[s]
    /\ raised => /\ \A i \in 1..Len(calls) : calls[i].k \notin {"emit", "error"}
                 /\ calls[Len(calls)].k = "throw"
                 /\ calls[Len(calls)].a \in abstract
    /\ \A s \in abstract : ~sysEnabled[s] =>
         \A i \in 1..Len(calls) : calls[i].a # s \/ calls[i].k # "update"

\* An update that fails at the abstract system after another system ran.
C12_Witness ==
  /\ lastOp.op = "update" /\ isRunning /\ raised
  /\ Len(CallsOfKind(calls, "update")) = 2

\* C13: entityCounter never decreases, whatever is called.
C13_CounterMonotonic ==
  [][entityCounter' >= entityCounter]_vars

\* C14: removeEntity of a registered entity returns true, takes it out of the
\* registry, clears the back-reference of every component in its map, and
\* leaves its component map and its tag set empty; removeEntity of an id that
\* is not registered returns false and changes nothing, with no hook and no
\* event.
C14_RemoveEntity ==
  [][lastOp'.op = "removeEntity" =>
       LET target == RegisteredWithId(EntityId(lastOp'.a)) IN
       IF target # {}
       THEN /\ ret' = TRUE /\ ~raised'
            /\ \A e \in target :
                 /\ e \notin Range(entities')
                 /\ \A c \in Comps :
                      entComponents[e][TypeOf(c)] = c => compEntity'[c] = None
                 /\ \A T \in Types : entComponents'[e][T] = NoComp
                 /\ entTags'[e] = {}
       ELSE /\ ret' = FALSE /\ ~raised'
            /\ calls' = <<>>
            /\ UNCHANGED <<entityVars, tagVars, systemVars, worldVars>>]_vars

\* A removal that notified the system requiring A (so the entity held an A),
\* after which that entity holds nothing while another registered entity
\* keeps its component and its tag.
C14_Witness ==
  /\ lastOp.op = "removeEntity" /\ ret = TRUE
  /\ Len(CallsOfKind(calls, "onEntityRemoved")) = 1
  /\ \A c \in Comps : compEntity[c] # lastOp.a
  /\ \E e \in Range(entities) : Has(e, "A") /\ entTags[e] # {}

\* C15: hasComponent and removeComponent called with null or undefined return
\* false, do not throw and leave the entity's components as they were.
C15_NullTypeSafe ==
  [][(lastOp'.op \in {"hasComponent", "removeComponent"} /\ lastOp'.x = NullType) =>
       /\ ~raised'
       /\ ret' = FALSE
       /\ UNCHANGED <<entityVars, tagVars>>]_vars

\* C16: no PhysicsSystem.update changes the x or y of a static body:
\* integration, collision response and the world-bounds clamp leave it.
C16_StaticBodyFixed ==
  [][lastOp'.op = "physics.update" =>
       \A b \in Bodies :
         body[b].isStatic => body'[b].x = body[b].x /\ body'[b].y = body[b].y]_vars

\* An update in which a static body collided with another body while it lies
\* across the world bounds.
C16_Witness ==
  /\ lastOp.op = "physics.update"
  /\ physBounds.set
  /\ \E b \in Bodies :
       /\ body[b].isStatic
       /\ RLess(getBounds(body[b]).y, physBounds.y)
       /\ \E i \in 1..Len(calls) :
            calls[i].k = "collision" /\ b \in {calls[i].a, calls[i].b}

\* The two bodies of the last checkCollision call, the distance between their
\* centres and the sum of their radii.
CheckedFirst  == body[lastOp.a]
CheckedSecond == body[lastOp.x]
CheckedDistance ==
  Hypot(RSub(CheckedSecond.x, CheckedFirst.x), RSub(CheckedSecond.y, CheckedFirst.y))
CheckedRadiusSum == RAdd(CheckedFirst.collisionRadius, CheckedSecond.collisionRadius)
\* The enable and bounding-box tests pass (group and mask are the defaults).
PassesBroadPhase ==
  /\ CheckedFirst.collisionEnabled /\ CheckedSecond.collisionEnabled
  /\ ~RLess(RAdd(getBounds(CheckedFirst).x, getBounds(CheckedFirst).width),
            getBounds(CheckedSecond).x)
  /\ ~RLess(RAdd(getBounds(CheckedSecond).x, getBounds(CheckedSecond).width),
            getBounds(CheckedFirst).x)
  /\ ~RLess(RAdd(getBounds(CheckedFirst).y, getBounds(CheckedFirst).height),
            getBounds(CheckedSecond).y)
  /\ ~RLess(RAdd(getBounds(CheckedSecond).y, getBounds(CheckedSecond).height),
            getBounds(CheckedFirst).y)
BothCircles ==
  CheckedFirst.collisionShape = "circle" /\ CheckedSecond.collisionShape = "circle"

\* C17: two circle bodies that pass the enable, mask and bounding-box checks
\* are reported colliding exactly when the distance between their centres is
\* strictly less than the sum of their radii; the depth is radiusSum minus
\* distance and the normal is the unit vector from the first centre to the
\* second (times the distance it is the offset, and its length is 1).
C17_CircleCollision ==
  (lastOp.op = "checkCollision" /\ BothCircles /\ PassesBroadPhase) =>
    /\ ret.hit <=> RLess(CheckedDistance, CheckedRadiusSum)
    /\ ret.hit =>
         /\ ret.depth = RSub(CheckedRadiusSum, CheckedDistance)
         /\ RMul(ret.normalX, CheckedDistance) = RSub(CheckedSecond.x, CheckedFirst.x)
         /\ RMul(ret.normalY, CheckedDistance) = RSub(CheckedSecond.y, CheckedFirst.y)
         /\ Hypot(ret.normalX, ret.normalY) = Num(1)

\* The same with the centres apart: what holds of the code when the distance
\* is not zero.
CirclesApartAgree ==
  (lastOp.op = "checkCollision" /\ BothCircles /\ PassesBroadPhase
     /\ CheckedDistance # Num(0)) =>
    /\ ret.hit <=> RLess(CheckedDistance, CheckedRadiusSum)
    /\ ret.hit =>
         /\ ret.depth = RSub(CheckedRadiusSum, CheckedDistance)
         /\ RMul(ret.normalX, CheckedDistance) = RSub(CheckedSecond.x, CheckedFirst.x)
         /\ RMul(ret.normalY, CheckedDistance) = RSub(CheckedSecond.y, CheckedFirst.y)

\* C18: the collision records and the colliding flag produced for a body
\* during one PhysicsSystem.update are still on that body after the update
\* has returned.
C18_CollisionsReadable ==
  (lastOp.op = "physics.update" /\ ~raised) =>
    \A i \in 1..Len(calls) :
      calls[i].k = "collision" =>
        \A b \in {calls[i].a, calls[i].b} :
          body[b].isColliding /\ body[b].collisions # <<>>

\* C19: a body whose own gravity has just been set to a value other than the
\* PhysicsSystem's accumulates its own gravity, not the system's, in the
\* PhysicsSystem.update that follows.
C19_OverrideWins ==
  [][(/\ lastOp.op = "physics.setGravity"
      /\ lastOp.x # physGravity
      /\ lastOp'.op = "physics.update") =>
       \A i \in 1..Len(calls') :
         (calls'[i].k = "gravity" /\ calls'[i].a = lastOp.a) =>
           calls'[i].b = GravityApplied(body[lastOp.a])]_vars

\* The body the steps are applied to is dynamic and was built with friction 0
\* (which the constructor stores as its default).
FrictionlessDynamic(p) ==
  ~p.isStatic /\ ~p.isKinematic /\ p.friction = NewBody(NoData).friction
Tolerance == Frac(1, 1000)

\* C20: a dynamic body of mass 1 and friction 0 that starts at rest with
\* acceleration (0, 980) and never collides has, after N integration steps
\* with dt = 1/60, velocity.y = 980 * N / 60 (within a tolerance), and every
\* step adds the updated velocity times dt to position.y.
C20_EulerIntegration ==
  [][(lastOp'.op = "physics.step" /\ lastOp'.x = StepTime
        /\ FrictionlessDynamic(body[lastOp'.a])) =>
       /\ RLess(RAbs(RSub(body'[lastOp'.a].velocityY,
                          RMul(Num(980 * frames'), StepTime))), Tolerance)
       /\ body'[lastOp'.a].y =
            RAdd(body[lastOp'.a].y, RMul(body'[lastOp'.a].velocityY, StepTime))]_vars

Dynamic(p) == ~p.isStatic /\ ~p.isKinematic
Distance(p, other) == Hypot(RSub(other.x, p.x), RSub(other.y, p.y))
Half == Frac(1, 2)

\* C21: the response to a collision of two dynamic bodies moves each of them
\* by depth * 0.5 along the contact normal, away from the other, so that the
\* distance between the centres grows by depth.
C21_ResponseSeparates ==
  [][(/\ lastOp'.op = "pairCollision"
      /\ Dynamic(body[lastOp'.a]) /\ Dynamic(body[lastOp'.x])
      /\ checkCollision(body[lastOp'.a], body[lastOp'.x]).hit) =>
       LET A == body[lastOp'.a]
           B == body[lastOp'.x]
           collision == checkCollision(A, B)
           stepX == RMul(RMul(collision.normalX, collision.depth), Half)
           stepY == RMul(RMul(collision.normalY, collision.depth), Half)
       IN  /\ body'[lastOp'.a].x = RSub(A.x, stepX)
           /\ body'[lastOp'.a].y = RSub(A.y, stepY)
           /\ body'[lastOp'.x].x = RAdd(B.x, stepX)
           /\ body'[lastOp'.x].y = RAdd(B.y, stepY)
           /\ Distance(body'[lastOp'.a], body'[lastOp'.x]) =
                RAdd(Distance(A, B), collision.depth)]_vars

Filtered(p, other) ==
  \/ ~p.collisionEnabled \/ ~other.collisionEnabled
  \/ other.collisionGroup \notin p.collisionMask
  \/ p.collisionGroup \notin other.collisionMask

\* C23: a filtered pair produces no collision, in either order of the two
\* bodies: PhysicsSystem.checkCollision leaves both bodies (records,
\* positions, velocities) and collisionPairs as they were, and an update
\* finds no collision of the pair and puts no entry for it in collisionPairs.
C23_FilteredPair ==
  [][\A a \in Bodies : \A b \in Bodies \ {a} :
       Filtered(body[a], body[b]) =>
         /\ (lastOp'.op = "pairCollision" /\ lastOp'.a = a /\ lastOp'.x = b) =>
              /\ body' = body
              /\ collisionPairs' = collisionPairs
              /\ calls' = <<>>
         /\ lastOp'.op = "physics.update" =>
              /\ \A i \in 1..Len(calls') :
                   calls'[i].k = "collision" => {calls'[i].a, calls'[i].b} # {a, b}
              /\ <<a, b>> \notin Range(collisionPairs')]_vars

\* PhysicsSystem.checkCollision has been called on two overlapping enabled
\* circles, the second of which has a mask without the first one's group,
\* while the first one's mask has the second one's group.
C23_Witness ==
  /\ lastOp.op = "pairCollision"
  /\ body[lastOp.a].collisionShape = "circle" /\ body[lastOp.x].collisionShape = "circle"
  /\ body[lastOp.a].collisionEnabled /\ body[lastOp.x].collisionEnabled
  /\ body[lastOp.x].collisionGroup \in body[lastOp.a].collisionMask
  /\ body[lastOp.a].collisionGroup \notin body[lastOp.x].collisionMask
  /\ RLess(Distance(body[lastOp.a], body[lastOp.x]),
           RAdd(body[lastOp.a].collisionRadius, body[lastOp.x].collisionRadius))
  /\ collisionPairs = <<>>
  /\ ~raised

\* The bounding boxes of the two bodies overlap or touch.
BoxesMeet(p, other) ==
  /\ ~RLess(RAdd(getBounds(p).x, getBounds(p).width), getBounds(other).x)
  /\ ~RLess(RAdd(getBounds(other).x, getBounds(other).width), getBounds(p).x)
  /\ ~RLess(RAdd(getBounds(p).y, getBounds(p).height), getBounds(other).y)
  /\ ~RLess(RAdd(getBounds(other).y, getBounds(other).height), getBounds(p).y)
NotCircle(p) == p.collisionShape \in {"rectangle", "polygon"}

\* C24: for a pair in which a body is a rectangle or a polygon, no collision
\* is reported: PhysicsSystem.checkCollision changes neither body and adds
\* no entry to collisionPairs, and an update finds no collision of the pair
\* and leaves no entry for it in collisionPairs.
C24_OnlyCirclesCollide ==
  [][\A a \in Bodies : \A b \in Bodies \ {a} :
       (NotCircle(body[a]) \/ NotCircle(body[b])) =>
         /\ (lastOp'.op = "pairCollision" /\ {lastOp'.a, lastOp'.x} = {a, b}) =>
              /\ body' = body
              /\ collisionPairs' = collisionPairs
              /\ calls' = <<>>
         /\ lastOp'.op = "physics.update" =>
              /\ \A i \in 1..Len(calls') :
                   calls'[i].k = "collision" => {calls'[i].a, calls'[i].b} # {a, b}
              /\ <<a, b>> \notin Range(collisionPairs')
              /\ <<b, a>> \notin Range(collisionPairs')]_vars

\* PhysicsSystem.checkCollision has been called on a rectangle and a polygon
\* that are enabled, pass the masks and whose bounding boxes overlap.
C24_Witness ==
  /\ lastOp.op = "pairCollision"
  /\ body[lastOp.a].collisionShape = "rectangle"
  /\ body[lastOp.x].collisionShape = "polygon"
  /\ ~Filtered(body[lastOp.a], body[lastOp.x])
  /\ BoxesMeet(body[lastOp.a], body[lastOp.x])
  /\ collisionPairs = <<>>
  /\ ~raised

\* The bounding box lies within the world bounds.
Within(bounds, worldBounds) ==
  /\ ~RLess(bounds.x, worldBounds.x)
  /\ ~RLess(RAdd(worldBounds.x, worldBounds.width), RAdd(bounds.x, bounds.width))
  /\ ~RLess(bounds.y, worldBounds.y)
  /\ ~RLess(RAdd(worldBounds.y, worldBounds.height), RAdd(bounds.y, bounds.height))

\* C25: after a PhysicsSystem.update with world bounds configured, the
\* bounding box of every body that is not static lies within the bounds, and
\* for each bound the body had crossed after its integration step, its
\* velocity across that bound points inside with the magnitude it had times
\* bounceFactor.
C25_KeptInBounds ==
  [][(lastOp'.op = "physics.update" /\ physBounds.set /\ ~raised') =>
       \A b \in Bodies :
         ~body[b].isStatic =>
           LET moved == updateEntityPhysics(body[b], lastOp'.x)
               bounds == getBounds(moved)
               q == body'[b]
           IN  /\ Within(getBounds(q), physBounds)
               /\ RLess(bounds.x, physBounds.x) =>
                    q.velocityX = RMul(RAbs(moved.velocityX), moved.bounceFactor)
               /\ RLess(RAdd(physBounds.x, physBounds.width),
                        RAdd(bounds.x, bounds.width)) =>
                    q.velocityX = RNeg(RMul(RAbs(moved.velocityX), moved.bounceFactor))
               /\ RLess(bounds.y, physBounds.y) =>
                    q.velocityY = RMul(RAbs(moved.velocityY), moved.bounceFactor)
               /\ RLess(RAdd(physBounds.y, physBounds.height),
                        RAdd(bounds.y, bounds.height)) =>
                    q.velocityY = RNeg(RMul(RAbs(moved.velocityY), moved.bounceFactor))]_vars

\* What integration works on: the motion of a body and its queues.
SameMotion(p, q) ==
  /\ q.accelerationX = p.accelerationX /\ q.accelerationY = p.accelerationY
  /\ q.angularVelocity = p.angularVelocity /\ q.rotation = p.rotation
  /\ q.forces = p.forces /\ q.impulses = p.impulses
SamePlace(p, q) ==
  /\ q.x = p.x /\ q.y = p.y
  /\ q.velocityX = p.velocityX /\ q.velocityY = p.velocityY

\* C26: a PhysicsSystem.update leaves the velocity, the acceleration, the
\* angular velocity, the position, the rotation and the queued forces and
\* impulses of a sleeping body unchanged.
C26_SleeperUntouched ==
  [][lastOp'.op = "physics.update" =>
       \A b \in Bodies :
         body[b].isSleeping =>
           SameMotion(body[b], body'[b]) /\ SamePlace(body[b], body'[b])]_vars

\* C26, amended: a PhysicsSystem.update leaves the acceleration, the angular
\* velocity, the rotation and the queued forces and impulses of a sleeping
\* body unchanged; its position and velocity are unchanged too, unless world
\* bounds are configured, the body is not static and its bounding box crosses
\* them, in which case they are those checkWorldBounds gives it.
C26_SleeperOnlyClamped ==
  [][lastOp'.op = "physics.update" =>
       \A b \in Bodies :
         body[b].isSleeping =>
           /\ SameMotion(body[b], body'[b])
           /\ \/ SamePlace(body[b], body'[b])
              \/ /\ physBounds.set /\ ~body[b].isStatic
                 /\ ~Within(getBounds(body[b]), physBounds)
                 /\ SamePlace(checkWorldBounds(body[b], physBounds), body'[b])]_vars

\* A sleeping body with a queued force and a queued impulse went through a
\* PhysicsSystem.update and was put back inside the bounds by it.
C26_Witness ==
  /\ lastOp.op = "physics.update"
  /\ body[1].isSleeping /\ body[1].forces # <<>> /\ body[1].impulses # <<>>
  /\ physBounds.set /\ body[1].y = Num(30)

\* The speed of a body, as Physics.update measures it for the sleep test.
Speed(p) == Hypot(p.velocityX, p.velocityY)
Slow(p) ==
  /\ RLess(Speed(p), Frac(1, 10))
  /\ RLess(RAbs(p.angularVelocity), Frac(1, 10))

\* C27: an integration step of an awake body puts it to sleep exactly when it
\* ends with speed < 0.1 and |angularVelocity| < 0.1, and a sleeping body is
\* still asleep after every update, addForce, addImpulse, setVelocity and
\* collision with another body.
C27_SleepOneWay ==
  [][\A b \in Bodies :
       /\ body[b].isSleeping => body'[b].isSleeping
       /\ (lastOp'.op = "physics.step" /\ lastOp'.a = b
             /\ ~body[b].isSleeping /\ ~body[b].isStatic) =>
            (body'[b].isSleeping <=> Slow(body'[b]))]_vars

\* A sleeping body that was given a velocity, a force and an impulse is still
\* asleep after an update in which it collided with the other body.
C27_Witness ==
  /\ lastOp.op = "physics.update"
  /\ \E i \in 1..Len(calls) : calls[i].k = "collision" /\ calls[i].a = 1
  /\ body[1].isSleeping /\ body[1].velocityY = Push
  /\ body[1].forces # <<>> /\ body[1].impulses # <<>>

\* A continuous force (duration 0) is in the queue.
Continuous(forces) == \E i \in 1..Len(forces) : forces[i].duration = Num(0)
Reset(p) ==
  /\ p.accelerationX = Num(0) /\ p.accelerationY = Num(0)
  /\ p.angularAcceleration = Num(0)

\* C28: at the end of an integration step the acceleration and the angular
\* acceleration are zero exactly when no continuous force remains queued on
\* the body, so also when only unexpired timed forces remain.  (Every force
\* and the gravity of these bodies point the same way, so an acceleration
\* that was not reset is not zero.)
C28_ResetUnlessContinuous ==
  [][\A b \in Bodies :
       (lastOp'.op = "physics.step" /\ lastOp'.a = b
          /\ ~body[b].isSleeping /\ ~body[b].isStatic) =>
         (Reset(body'[b]) <=> ~Continuous(body'[b].forces))]_vars

\* The listeners an emit invoked, and those subscribed.
Invoked(seq) ==
  {seq[i].a : i \in {j \in 1..Len(seq) : seq[j].k = "listener"}}
Registered(listeners) == {listeners[i].listener : i \in 1..Len(listeners)}
RegisteredOnce(listeners) ==
  {listeners[i].listener : i \in {j \in 1..Len(listeners) : listeners[j].once}}

\* C29: a listener subscribed with once is no longer subscribed after the
\* first emit that invoked it, whether the invocation returned, threw or
\* returned false, so no later emit invokes it again.
C29_OnceRunsOnce ==
  [][lastOp'.op = "emitter.emit" =>
       \A l \in RegisteredOnce(emitterEvents) :
         l \in Invoked(calls') => l \notin Registered(emitterEvents')]_vars

\* C30: a system's onEntityRemoved is called for an entity only while an
\* onEntityAdded of that system for that entity is outstanding, and
\* removeEntity calls onEntityRemoved on every registered system that has one
\* outstanding for the entity it removes.
C30_HooksPaired ==
  [][/\ \A i \in 1..Len(calls') :
          calls'[i].k = "onEntityRemoved" =>
            <<calls'[i].a, calls'[i].b>> \in hooked
     /\ (lastOp'.op = "removeEntity" /\ ret' = TRUE) =>
          \A s \in Range(systems) :
            <<s, lastOp'.a>> \in hooked =>
              HookCount(calls', "onEntityRemoved", s, lastOp'.a) = 1]_vars

\* C31: a component's entity back-reference is e exactly when e's component
\* map holds that component under its type.
C31_BackrefConsistent ==
  \A c \in Comps, e \in EntityObjs :
    compEntity[c] = e <=> entComponents[e][TypeOf(c)] = c

\* The emits of event ev with data x among the calls of seq.
EmitCount(seq, ev, x) ==
  Cardinality({i \in 1..Len(seq) :
                 seq[i].k = "emit" /\ seq[i].ev = ev /\ seq[i].a = x})

\* C32: a call after which a registered entity is no longer registered called
\* onEntityRemoved on each registered system matching it and emitted one
\* entityRemoved for it; a call after which a registered system is no longer
\* registered emitted one systemRemoved for it.
C32_LeavingAnnounced ==
  [][/\ \A e \in Range(entities) \ Range(entities') :
          /\ EmitCount(calls', "entityRemoved", e) = 1
          /\ \A s \in Range(systems) :
               ShouldMatch(s, e) => HookCount(calls', "onEntityRemoved", s, e) = 1
     /\ \A s \in Range(systems) \ Range(systems') :
          EmitCount(calls', "systemRemoved", s) = 1]_vars

\* C33: no call invokes the update of a system after that system's destroy
\* hook has run in it, and a system that is not registered is not updated.
C33_NoUpdateAfterDestroy ==
  [][/\ \A i \in 1..Len(calls'), j \in 1..Len(calls') :
          (i < j /\ calls'[i].k = "destroy" /\ calls'[j].k = "update") =>
            calls'[j].a # calls'[i].a
     /\ \A j \in 1..Len(calls') :
          calls'[j].k = "update" => calls'[j].a \in Range(systems)]_vars

\* How many times listener l is subscribed in the list.
TimesSubscribed(listeners, l) ==
  Cardinality({i \in 1..Len(listeners) : listeners[i] = l})

\* C34: World.emit invokes exactly once every listener that was subscribed
\* (once) to the event when the emit started, whatever the listeners take off
\* the list while the emit runs.
C34_EveryListenerOnce ==
  [][lastOp'.op = "emit" =>
       \A l \in AllListeners :
         TimesSubscribed(eventListeners[lastOp'.x], l) = 1 =>
           ListenerCount(calls', lastOp'.x, l) = 1]_vars

C35_RemovesOnlyArgument ==
  [][lastOp'.op = "removeEntity" =>
       Range(entities) \ Range(entities') \subseteq {lastOp'.a}]_vars

\* C36: PhysicsSystem.update leaves no impulse queued on a body that is not
\* static: the impulses pending when it is called are drained by it.
C36_ImpulsesDrained ==
  [][lastOp'.op = "physics.update" =>
       \A b \in Bodies : ~body[b].isStatic => body'[b].impulses = <<>>]_vars

\* The vertical velocity with which body p leaves the integration step of an
\* update of the system: the impulses over the mass are added first, then
\* the acceleration (carried over, gravity, forces) times deltaTime, then the
\* friction of a body that is not kinematic.
VelocityAfter(p, deltaTime) ==
  LET gravity == IF p.isKinematic THEN Num(0)
                 ELSE RMul(physGravity[2], p.gravityScale)
      acceleration == RAdd(RAdd(p.accelerationY, gravity),
                           SumOver(p.forces, "y", p.mass))
      pushed == RAdd(p.velocityY, SumOver(p.impulses, "y", p.mass))
      friction == IF p.isKinematic THEN Num(0)
                  ELSE IF p.isColliding THEN p.friction ELSE p.airResistance
  IN  RMul(RAdd(pushed, RMul(acceleration, deltaTime)), RSub(Num(1), friction))

\* C36 (amended): an update of the system drains the impulses of a body that
\* is neither static nor asleep, adding each one over the mass to the velocity
\* (seen where no world bounds reflect the velocity afterwards), and leaves
\* the impulses of a sleeping body queued.
C36_AwakeImpulsesDrained ==
  [][lastOp'.op = "physics.update" =>
       \A b \in Bodies :
         /\ (~body[b].isStatic /\ ~body[b].isSleeping) =>
              /\ body'[b].impulses = <<>>
              /\ ~physBounds.set =>
                   body'[b].velocityY = VelocityAfter(body[b], lastOp'.x)
         /\ body[b].isSleeping => body'[b].impulses = body[b].impulses]_vars

\* A kinematic body on which no force was ever put moves, after an update,
\* at the speed two impulses gave it, and its queue is empty.
C36_Witness ==
  /\ lastOp.op = "physics.update"
  /\ body[1].isKinematic /\ ~body[1].isSleeping
  /\ body[1].forces = <<>> /\ body[1].impulses = <<>>
  /\ body[1].velocityY = RAdd(Push, Push)

\* C37: a step of Physics.update on a dynamic body changes the velocity by
\* (gravity * gravityScale + the sum of force / mass over the queued forces)
\* * deltaTime before the damping; nothing of an earlier step's acceleration
\* is in it.
C37_NoCarryOver ==
  [][lastOp'.op = "physics.step" =>
       \A b \in Bodies :
         (lastOp'.a = b /\ ~body[b].isKinematic /\ ~body[b].isStatic
            /\ ~body[b].isSleeping) =>
           LET p == body[b]
               acceleration == RAdd(GravityApplied(p)[2],
                                    SumOver(p.forces, "y", p.mass))
               friction == IF p.isColliding THEN p.friction ELSE p.airResistance
           IN  body'[b].velocityY =
                 RMul(RAdd(p.velocityY, RMul(acceleration, lastOp'.x)),
                      RSub(Num(1), friction))]_vars

\* C38: every collision record of a body about another body has its mirror
\* (opposite normal, equal depth) in the list of the other, and no collision
\* response has raised.
C38_RecordsSymmetric ==
  /\ \A a \in Bodies, b \in Bodies :
       \A i \in 1..Len(body[a].collisions) :
         body[a].collisions[i].other = b =>
           \E j \in 1..Len(body[b].collisions) :
             /\ body[b].collisions[j].other = a
             /\ body[b].collisions[j].normalX = RNeg(body[a].collisions[i].normalX)
             /\ body[b].collisions[j].normalY = RNeg(body[a].collisions[i].normalY)
             /\ body[b].collisions[j].depth = body[a].collisions[i].depth
  /\ \A i \in 1..Len(calls) : calls[i].k # "throw"

\* C39: the collision that checkCollision reports for two circles has a
\* normal whose components are numbers and whose length is 1, and a depth
\* that is a number, wherever the centres are.
C39_NormalDefined ==
  (lastOp.op = "checkCollision" /\ BothCircles /\ ret.hit) =>
    /\ ~IsNaN(ret.normalX) /\ ~IsNaN(ret.normalY) /\ ~IsNaN(ret.depth)
    /\ Hypot(ret.normalX, ret.normalY) = Num(1)

\* No event is emitted by the call.
Silent(seq) == \A i \in 1..Len(seq) : seq[i].k # "emit"

\* C40: a call emits worldStarted, once, exactly when it takes isRunning from
\* false to true, and worldStopped, once, exactly when it takes it from true
\* to false, so the two events alternate from worldStarted on and isRunning
\* is true between them; a start of a running world and a stop of a stopped
\* one emit nothing and change nothing, lastUpdateTime included.
C40_StartStopAlternate ==
  [][/\ EmitCount(calls', "worldStarted", 0) = IF ~isRunning /\ isRunning' THEN 1 ELSE 0
     /\ EmitCount(calls', "worldStopped", 0) = IF isRunning /\ ~isRunning' THEN 1 ELSE 0
     /\ ((lastOp'.op = "start" /\ isRunning) \/ (lastOp'.op = "stop" /\ ~isRunning)) =>
          /\ Silent(calls')
          /\ UNCHANGED <<entityVars, tagVars, systemVars, worldVars>>]_vars

\* start(now) on a running world whose lastUpdateTime is another time: the
\* call warned and the time is as it was.
C40_Witness ==
  /\ lastOp.op = "start" /\ calls = <<Warn>>
  /\ isRunning /\ lastUpdateTime # lastOp.a

=============================================================================
